---------------------------- MODULE Spec2Model ----------------------------
(***************************************************************************)
(* Loan ledger engine of the "prestamos" API (src/src/index.js): capital,  *)
(* capital movements, clients, loans, installments and payments, with the  *)
(* request handlers that mutate them.                                      *)
(*                                                                         *)
(* Money is counted in whole cents (the unit of the NUMERIC(14,2) columns).*)
(* A calendar date YYYY-MM-DD is the integer YYYYMMDD, whose order is the  *)
(* order of the date strings the code compares.  A null column is 0.       *)
(*                                                                         *)
(* The specifications share the database variables:                        *)
(*   Spec      every request runs alone, from its first statement to its   *)
(*             response (one action per handler);                          *)
(*   PaySpec, ClientSpec, ScheduleSpec                                     *)
(*             the same handlers over larger loans, two clients, and many  *)
(*             loan amounts, lengths, dates and server time zones;         *)
(*   ConcSpec  requests interleave at their awaits: one action per SQL     *)
(*             statement (or run of statements no other request can tell   *)
(*             apart), under PostgreSQL READ COMMITTED with row locks.     *)
(* The server's clock runs on UTC except in ScheduleSpec, where its local  *)
(* time may be behind or ahead of UTC.                                     *)
(***************************************************************************)
EXTENDS Integers, Sequences, FiniteSets, TLC

VARIABLES
    capital,        \* capital.amount of the singleton row (id = 1)
    movements,      \* rows of capital_movements
    clients,        \* ids of the rows of clients
    loans,          \* rows of loans
    installments,   \* rows of installments
    payments,       \* rows of payments
    nextId,         \* the SERIAL sequences: next id per table
    today,          \* the server's current date
    utcOffset,      \* hours the server's local time is ahead of UTC
    procs,          \* ConcSpec: the in-flight requests (one per connection slot)
    locks,          \* ConcSpec: row locks held by open transactions
    started,        \* ConcSpec: number of requests admitted so far
    snapshot        \* ConcSpec: the tables when the first of them was admitted

dbVars == <<capital, movements, clients, loans, installments, payments, nextId>>
vars == <<capital, movements, clients, loans, installments, payments, nextId,
          today, utcOffset, procs, locks, started, snapshot>>
concVars == <<procs, locks, started, snapshot>>

---------------------------------------------------------------------------
(* Bounds of the model *)

MaxClients == 1        \* client rows ever inserted
MaxLoans == 2          \* loan rows ever inserted
MaxMovements == 4      \* capital movements ever inserted
MaxRequests == 2       \* ConcSpec: requests admitted in one run
NumProcs == 2          \* ConcSpec: requests in flight at a time

---------------------------------------------------------------------------
(* Inputs the requests are drawn from *)

NoId == 0
NoDate == 0

CapitalAmounts == {0, 50}               \* PUT /capital {amount}
Deltas == {-10, 10}                    \* POST /capital/adjust {delta}
LoanAmounts == {25}                     \* POST /loans {amount}
InstallmentCounts == {1, 2}            \* POST /loans {installmentsCount}
LoanDates == {20240110}               \* POST /loans {loanDate}
PaymentAmounts == {6, 14, 28}           \* POST /payments {amount}
PaymentDates == {NoDate, 20240103}     \* POST /payments {paymentDate}
Days == <<20240105, 20240120>>         \* the dates the server lives through
LoanStatuses == {"Activo", "Finalizado", "En mora"}
ClientInputs == {NoId, 1}              \* POST /payments {clientId}
MaxInstallmentId ==
    MaxLoans * (CHOOSE n \in InstallmentCounts : \A m \in InstallmentCounts : m <= n)

---------------------------------------------------------------------------
(* Pure helpers *)

\* round2 of the rational num/den (den > 0), in cents: Math.round rounds half up.
\* On whole cents (den = 1) the nudge by Number.EPSILON changes nothing.
round2(num, den) == (2 * num + den) \div (2 * den)

Min(a, b) == IF a <= b THEN a ELSE b
Max(a, b) == IF a >= b THEN a ELSE b

\* SUM(amount) over a set of rows that have an amount column (0 for no row).
RECURSIVE SumAmount(_)
SumAmount(rows) ==
    IF rows = {} THEN 0
    ELSE LET r == CHOOSE x \in rows : TRUE
         IN r.amount + SumAmount(rows \ {r})

\* SUM(paid_amount) over a set of installment rows.
RECURSIVE SumPaid(_)
SumPaid(rows) ==
    IF rows = {} THEN 0
    ELSE LET r == CHOOSE x \in rows : TRUE
         IN r.paidAmount + SumPaid(rows \ {r})

\* toDateOnly: an absent value becomes today; a YYYY-MM-DD string is kept.
toDateOnly(v) == IF v = NoDate THEN today ELSE v

MkDate(y, m, d) == IF m > 12 THEN (y + 1) * 10000 + (m - 12) * 100 + d
                   ELSE y * 10000 + m * 100 + d
YearOf(x) == x \div 10000
MonthOf(x) == (x \div 100) % 100
DayOf(x) == x % 100

\* The number of days of month m of year y.
DaysInMonth(y, m) ==
    IF m = 2
    THEN (IF y % 4 = 0 /\ (y % 100 # 0 \/ y % 400 = 0) THEN 29 ELSE 28)
    ELSE IF m \in {4, 6, 9, 11} THEN 30 ELSE 31

\* The calendar day before x.
PrevDay(x) ==
    IF DayOf(x) > 1 THEN x - 1
    ELSE IF MonthOf(x) > 1
         THEN MkDate(YearOf(x), MonthOf(x) - 1,
                     DaysInMonth(YearOf(x), MonthOf(x) - 1))
         ELSE MkDate(YearOf(x) - 1, 12, 31)

\* toDateOnly(new Date(y, m, d)): the Date is midnight of that day in the
\* server's local time and toISOString() prints its UTC date, which is the
\* day before when local time is ahead of UTC.
toDateOnlyLocal(y, m, d) ==
    IF utcOffset > 0 THEN PrevDay(MkDate(y, m, d)) ELSE MkDate(y, m, d)

\* new Date(x + "T00:00:00") is read in local time and getFullYear, getMonth
\* and getDate give back the year, month and day as written.
nextQuincenalFrom(x) ==
    IF DayOf(x) <= 1 THEN toDateOnlyLocal(YearOf(x), MonthOf(x), 1)
    ELSE IF DayOf(x) <= 15 THEN toDateOnlyLocal(YearOf(x), MonthOf(x), 15)
    ELSE toDateOnlyLocal(YearOf(x), MonthOf(x) + 1, 1)

nextQuincenalAfter(x) ==
    IF DayOf(x) <= 1 THEN toDateOnlyLocal(YearOf(x), MonthOf(x), 15)
    ELSE IF DayOf(x) <= 15 THEN toDateOnlyLocal(YearOf(x), MonthOf(x) + 1, 1)
    ELSE toDateOnlyLocal(YearOf(x), MonthOf(x) + 1, 15)

\* The due date of installment i (1-based) of a loan dated loanDate.
RECURSIVE DueDate(_, _)
DueDate(loanDate, i) ==
    IF i = 1 THEN nextQuincenalFrom(loanDate)
    ELSE nextQuincenalAfter(DueDate(loanDate, i - 1))

\* buildQuincenalSchedule giving every installment the first date: C25 fails.
buildQuincenalScheduleFlat(loanDate, n) ==
    [i \in 1..n |-> nextQuincenalFrom(loanDate)]

buildQuincenalSchedule(loanDate, n) == [i \in 1..n |-> DueDate(loanDate, i)]

\* computeLoanFields with the interest truncated to whole cents: C22 fails.
computeLoanFieldsTruncated(amount, n) ==
    LET base == round2(amount, n)
        interest == (amount * 5) \div 100
        total == round2(base + interest, 1)
    IN [baseInstallment |-> base,
        interestPerInstallment |-> interest,
        installmentTotal |-> total,
        totalPayable |-> round2(total * n, 1)]

computeLoanFields(amount, n) ==
    LET base == round2(amount, n)
        interest == round2(amount * 5, 100)
        total == round2(base + interest, 1)
    IN [baseInstallment |-> base,
        interestPerInstallment |-> interest,
        installmentTotal |-> total,
        totalPayable |-> round2(total * n, 1)]

---------------------------------------------------------------------------
(* Rows and queries *)

MovementRow(id, type, amount, loanId, paymentId) ==
    [id |-> id, type |-> type, amount |-> amount, loanId |-> loanId,
     paymentId |-> paymentId]

\* insertCapitalMovement: the table with one more row.
\* insertCapitalMovement that stores no payment_id: C11 fails.
insertCapitalMovementUnlinked(ms, id, type, amount, loanId, paymentId) ==
    ms \cup {MovementRow(id, type, amount, loanId, NoId)}

insertCapitalMovement(ms, id, type, amount, loanId, paymentId) ==
    ms \cup {MovementRow(id, type, amount, loanId, paymentId)}

LoanRow(id, clientId, amount, loanDate, n, f) ==
    [id |-> id, clientId |-> clientId, amount |-> round2(amount, 1),
     loanDate |-> loanDate, installmentsCount |-> n, status |-> "Activo",
     baseInstallment |-> f.baseInstallment,
     interestPerInstallment |-> f.interestPerInstallment,
     installmentTotal |-> f.installmentTotal,
     totalPayable |-> f.totalPayable,
     paidTotal |-> 0, pendingTotal |-> f.totalPayable]

InstallmentRow(id, loanId, number, dueDate, amount) ==
    [id |-> id, loanId |-> loanId, number |-> number, dueDate |-> dueDate,
     amount |-> amount, status |-> "Pendiente", paidDate |-> NoDate,
     paidAmount |-> 0]

PaymentRow(id, clientId, loanId, installmentId, paymentDate, amount, type) ==
    [id |-> id, clientId |-> clientId, loanId |-> loanId,
     installmentId |-> installmentId, paymentDate |-> paymentDate,
     amount |-> amount, type |-> type]

LoanIds(ls) == {l.id : l \in ls}
LoanById(ls, id) == CHOOSE l \in ls : l.id = id
InstById(is, id) == CHOOSE i \in is : i.id = id
InstsOf(is, loanId) == {i \in is : i.loanId = loanId}

\* SELECT ... FROM installments WHERE loan_id = $1 ORDER BY number ASC
RECURSIVE OrderByNumber(_)
OrderByNumber(rows) ==
    IF rows = {} THEN <<>>
    ELSE LET r == CHOOSE x \in rows : \A y \in rows : x.number <= y.number
         IN <<r>> \o OrderByNumber(rows \ {r})

Range(f) == {f[i] : i \in DOMAIN f}

---------------------------------------------------------------------------
(* Installment state machine and loan aggregator *)

\* RefreshedStatus that never marks a row overdue: C34 fails.
RefreshedStatusNeverLate(inst, day) ==
    IF inst.paidAmount >= inst.amount THEN "Pagada"
    ELSE IF inst.status = "Atrasada" THEN "Atrasada"
    ELSE "Pendiente"

\* The status refreshInstallmentStatuses leaves on one row read at date day.
\* due_date and today are compared as YYYY-MM-DD values.
RefreshedStatus(inst, day) ==
    IF inst.paidAmount >= inst.amount /\ inst.status # "Pagada" THEN "Pagada"
    ELSE IF inst.dueDate < day /\ inst.paidAmount < inst.amount THEN "Atrasada"
    ELSE IF inst.paidAmount < inst.amount /\ inst.status # "Pendiente"
         THEN "Pendiente"
    ELSE inst.status

\* refreshInstallmentStatuses(loanId) run alone: the installments table after it.
refreshInstallmentStatuses(is, loanId, day) ==
    {IF i.loanId = loanId THEN [i EXCEPT !.status = RefreshedStatus(i, day)]
     ELSE i : i \in is}

\* ReadTotals with pendingTotal taken for the sum of the amounts: C8 fails.
ReadTotalsNoSubtraction(rows) ==
    LET paidTotal == round2(SumPaid(rows), 1)
        amountTotal == round2(SumAmount(rows), 1)
    IN [paidTotal |-> paidTotal, pendingTotal |-> amountTotal]

\* SELECT SUM(paid_amount), SUM(amount) and the values derived from them.
ReadTotals(rows) ==
    LET paidTotal == round2(SumPaid(rows), 1)
        amountTotal == round2(SumAmount(rows), 1)
    IN [paidTotal |-> paidTotal,
        pendingTotal |-> round2(amountTotal - paidTotal, 1)]

\* SUM(CASE WHEN status = 'Atrasada' THEN 1 ELSE 0 END)
LateCount(rows) == Cardinality({i \in rows : i.status = "Atrasada"})

\* AggregateStatus that never reports a loan in arrears: C35 fails.
AggregateStatusNeverMora(pendingTotal, late) ==
    IF pendingTotal <= 0 THEN "Finalizado" ELSE "Activo"

\* let status = "Activo"; if (pendingTotal <= 0) ... else if (late > 0) ...
AggregateStatus(pendingTotal, late) ==
    IF pendingTotal <= 0 THEN "Finalizado"
    ELSE IF late > 0 THEN "En mora"
    ELSE "Activo"

\* UPDATE loans SET paid_total, pending_total, status WHERE id = loanId
WriteLoanTotals(ls, loanId, totals, status) ==
    {IF l.id = loanId
     THEN [l EXCEPT !.paidTotal = totals.paidTotal,
                    !.pendingTotal = totals.pendingTotal,
                    !.status = status]
     ELSE l : l \in ls}

\* updateLoanTotalsAndStatus(loanId) run alone: the loans table after it, given
\* the installments table is the one refreshInstallmentStatuses has left.
updateLoanTotalsAndStatus(ls, is, loanId) ==
    LET rows == InstsOf(is, loanId)
        totals == ReadTotals(rows)
    IN WriteLoanTotals(ls, loanId, totals,
                       AggregateStatus(totals.pendingTotal, LateCount(rows)))

---------------------------------------------------------------------------
(* Payment allocator *)

\* principalPending that counts what was paid as principal first: C13 fails.
principalPendingNoInterest(loan, inst) ==
    LET principalPaid == Min(loan.baseInstallment, Max(0, inst.paidAmount))
    IN round2(loan.baseInstallment - principalPaid, 1)

\* principalPending that takes the whole base as pending whatever was paid:
\* C38 fails.
principalPendingWholeBase(loan, inst) == loan.baseInstallment

\* principalPending = round2(baseInstallment - principalPaid)
principalPending(loan, inst) ==
    LET principalPaid ==
            Min(loan.baseInstallment,
                Max(0, inst.paidAmount - loan.interestPerInstallment))
    IN round2(loan.baseInstallment - principalPaid, 1)

\* The payoff total accumulated over the rows in order.
RECURSIVE payoffTotal(_, _)
payoffTotal(loan, rows) ==
    IF rows = <<>> THEN 0
    ELSE LET n == Len(rows)
             before == payoffTotal(loan, SubSeq(rows, 1, n - 1))
             pp == principalPending(loan, rows[n])
         IN IF pp <= 0 THEN before ELSE round2(before + pp, 1)

\* payoffRewrite with newPaid taken for the principal pending alone: C10 fails.
payoffRewritePendingOnly(loan, inst, payDate) ==
    LET pp == principalPending(loan, inst)
    IN IF pp <= 0 THEN inst
       ELSE [inst EXCEPT !.amount = pp, !.paidAmount = pp,
                         !.status = "Pagada", !.paidDate = payDate]

\* payoffRewrite that leaves paid_date as it was: C14 (as amended) fails.
payoffRewriteUndated(loan, inst, payDate) ==
    LET pp == principalPending(loan, inst)
        newPaid == round2(inst.paidAmount + pp, 1)
    IN IF pp <= 0 THEN inst
       ELSE [inst EXCEPT !.amount = newPaid, !.paidAmount = newPaid,
                         !.status = "Pagada"]

\* The payoff's rewrite of one installment row.
payoffRewrite(loan, inst, payDate) ==
    LET pp == principalPending(loan, inst)
        newPaid == round2(inst.paidAmount + pp, 1)
    IN IF pp <= 0 THEN inst
       ELSE [inst EXCEPT !.amount = newPaid, !.paidAmount = newPaid,
                         !.status = "Pagada", !.paidDate = payDate]

\* appliedAmount without the cap at what the installment still owes: C9 fails.
appliedInFull(remaining, pending) == remaining

\* const applied = remaining >= pending ? pending : remaining
appliedAmount(remaining, pending) ==
    IF remaining >= pending THEN pending ELSE remaining

\* allocatedStatus marking every installment it touches Pagada: C21 fails.
allocatedStatusAlwaysPagada(inst, newPaid) == "Pagada"

\* const status = newPaid >= Number(inst.amount) ? "Pagada" : inst.status
allocatedStatus(inst, newPaid) ==
    IF newPaid >= inst.amount THEN "Pagada" ELSE inst.status

\* skipsInstallment passing over paid installments only, whatever the start
\* number: C33 fails.
skipsInstallmentOnlyPaid(inst, startNumber, pending) == pending <= 0

\* if (startNumber !== null && Number(inst.number) < startNumber) continue;
\* if (pending <= 0) continue;
skipsInstallment(inst, startNumber, pending) ==
    (startNumber # NoId /\ inst.number < startNumber) \/ pending <= 0

\* The normal payment's allocation loop over the rows in order: the rows as it
\* leaves them and what is left of the amount when it ends.
RECURSIVE allocate(_, _, _, _)
allocate(rows, remaining, startNumber, payDate) ==
    IF rows = <<>> THEN [rows |-> {}, remaining |-> remaining]
    ELSE IF remaining <= 0 THEN [rows |-> Range(rows), remaining |-> remaining]
    ELSE
      LET inst == Head(rows)
          pending == round2(inst.amount - inst.paidAmount, 1)
      IN IF skipsInstallment(inst, startNumber, pending)
         THEN LET rest == allocate(Tail(rows), remaining, startNumber, payDate)
              IN [rows |-> {inst} \cup rest.rows, remaining |-> rest.remaining]
         ELSE LET applied == appliedAmount(remaining, pending)
                  newPaid == round2(inst.paidAmount + applied, 1)
                  status == allocatedStatus(inst, newPaid)
                  upd == [inst EXCEPT
                            !.paidAmount = newPaid,
                            !.status = status,
                            !.paidDate = IF status = "Pagada" THEN payDate
                                         ELSE inst.paidDate]
                  rest == allocate(Tail(rows), round2(remaining - applied, 1),
                                   startNumber, payDate)
              IN [rows |-> {upd} \cup rest.rows, remaining |-> rest.remaining]

\* POST /payments request bodies: a payment on a loan, a payment on an
\* installment, a payoff (which reads neither amount nor installmentId).
PaymentRequests ==
    {[clientId |-> c, loanId |-> l, installmentId |-> NoId, amount |-> a,
      paymentDate |-> d, payoff |-> FALSE] :
        c \in ClientInputs, l \in 0..MaxLoans, a \in PaymentAmounts \cup {0},
        d \in PaymentDates}
    \cup
    {[clientId |-> c, loanId |-> NoId, installmentId |-> i, amount |-> a,
      paymentDate |-> d, payoff |-> FALSE] :
        c \in ClientInputs, i \in 1..MaxInstallmentId, a \in PaymentAmounts,
        d \in PaymentDates}
    \cup
    {[clientId |-> c, loanId |-> l, installmentId |-> NoId, amount |-> 0,
      paymentDate |-> d, payoff |-> TRUE] :
        c \in ClientInputs, l \in 0..MaxLoans, d \in PaymentDates}

\* paymentAmountOk that lets every amount through: C16 fails.
paymentAmountAlwaysOk(rq) == TRUE

\* The checks at the head of POST /payments that read no row.
paymentAmountOk(rq) == rq.payoff \/ rq.amount > 0

\* The loan a payment request resolves to (NoId when it names none), given the
\* installment row its installmentId selects.
resolvedLoanId(is, rq) ==
    IF ~rq.payoff /\ rq.installmentId # NoId
    THEN InstById(is, rq.installmentId).loanId
    ELSE rq.loanId

\* loanAlreadyPaid that also turns away a loan stored Finalizado: C37 fails.
loanAlreadyPaidOrFinalizado(loan, pendingTotal) ==
    pendingTotal <= 0 \/ loan.status = "Finalizado"

\* if (pendingTotal <= 0) ... "loan already paid"
loanAlreadyPaid(loan, pendingTotal) == pendingTotal <= 0

\* What POST /payments decides once it holds the loan and its installments:
\* the status it answers and, for 201, the rows it writes before COMMIT.
\* ls, is, cs are the tables as the transaction reads them.
paymentPlan(ls, is, cs, rq) ==
    LET targeted == ~rq.payoff /\ rq.installmentId # NoId
        roundedAmount == round2(rq.amount, 1)
    IN
    IF ~paymentAmountOk(rq) THEN [code |-> 400]
    ELSE IF targeted /\ rq.installmentId \notin {i.id : i \in is}
    THEN [code |-> 404]
    ELSE IF resolvedLoanId(is, rq) = NoId THEN [code |-> 400]
    ELSE IF resolvedLoanId(is, rq) \notin LoanIds(ls) THEN [code |-> 404]
    ELSE
      LET loanId == resolvedLoanId(is, rq)
          loan == LoanById(ls, loanId)
          clientId == IF targeted \/ rq.clientId = NoId THEN loan.clientId
                      ELSE rq.clientId
          rows == OrderByNumber(InstsOf(is, loanId))
          pendingTotal == ReadTotals(Range(rows)).pendingTotal
          paymentDateValue == toDateOnly(rq.paymentDate)
          startNumber == IF targeted THEN InstById(is, rq.installmentId).number
                         ELSE NoId
          paymentAmount == IF rq.payoff THEN payoffTotal(loan, rows)
                           ELSE roundedAmount
          newRows ==
              IF rq.payoff
              THEN {payoffRewrite(loan, i, paymentDateValue) : i \in Range(rows)}
              ELSE allocate(rows, paymentAmount, startNumber,
                            paymentDateValue).rows
          updatedTotal == round2(SumAmount(newRows), 1)
      IN
      IF loanAlreadyPaid(loan, pendingTotal) THEN [code |-> 400]
      ELSE IF rq.payoff /\ paymentAmount <= 0 THEN [code |-> 400]
      ELSE IF ~rq.payoff /\ paymentAmount > pendingTotal THEN [code |-> 400]
      \* payments.client_id REFERENCES clients(id): the INSERT throws
      ELSE IF clientId \notin cs THEN [code |-> 500]
      ELSE [code |-> 201,
            loanId |-> loanId,
            clientId |-> clientId,
            installmentId |-> IF rq.payoff THEN NoId ELSE rq.installmentId,
            paymentDate |-> paymentDateValue,
            amount |-> paymentAmount,
            type |-> IF rq.payoff THEN "payoff" ELSE "payment",
            rows |-> newRows,
            loan |-> IF rq.payoff
                     THEN [loan EXCEPT !.totalPayable = updatedTotal,
                                       !.paidTotal = updatedTotal,
                                       !.pendingTotal = 0,
                                       !.status = "Finalizado"]
                     ELSE loan]

\* applyPaymentRows that drops the installments the payment settles: C29 fails.
applyPaymentRowsDroppingPaid(is, plan) ==
    (is \ InstsOf(is, plan.loanId))
        \cup {r \in plan.rows : r.status # "Pagada"}

\* The installments table with a payment's UPDATEs applied.
applyPaymentRows(is, plan) == (is \ InstsOf(is, plan.loanId)) \cup plan.rows

\* The loans table with a payment's UPDATE applied: only a payoff writes it.
applyPaymentLoan(ls, plan) ==
    IF plan.type = "payoff"
    THEN {IF l.id = plan.loanId THEN plan.loan ELSE l : l \in ls}
    ELSE ls

\* The loans and installments tables after POST /payments has served rq alone:
\* the transaction, then updateLoanTotalsAndStatus.
servePayment(ls, is, cs, rq) ==
    LET plan == paymentPlan(ls, is, cs, rq)
    IN IF plan.code # 201 THEN [loans |-> ls, installments |-> is]
       ELSE LET rows == refreshInstallmentStatuses(applyPaymentRows(is, plan),
                                                   plan.loanId, today)
            IN [loans |-> updateLoanTotalsAndStatus(applyPaymentLoan(ls, plan),
                                                    rows, plan.loanId),
                installments |-> rows]

---------------------------------------------------------------------------
(* Cascade eraser and schedule repair *)

\* deleteLoanCascade without its DELETEs FROM capital_movements: C17 fails.
deleteLoanCascadeKeepingMovements(ms, ps, is, ls, loanId) ==
    [movements |-> ms,
     payments |-> {q \in ps : q.loanId # loanId},
     installments |-> {i \in is : i.loanId # loanId},
     loans |-> {l \in ls : l.id # loanId}]

\* deleteLoanCascade emptying capital_movements: C30 fails.
deleteLoanCascadeAllMovements(ms, ps, is, ls, loanId) ==
    [movements |-> {},
     payments |-> {q \in ps : q.loanId # loanId},
     installments |-> {i \in is : i.loanId # loanId},
     loans |-> {l \in ls : l.id # loanId}]

\* deleteLoanCascade: the four tables after it.
deleteLoanCascade(ms, ps, is, ls, loanId) ==
    LET paymentIds == {p.id : p \in {q \in ps : q.loanId = loanId}}
    IN [movements |-> {m \in ms : m.loanId # loanId
                                   /\ m.paymentId \notin paymentIds},
        payments |-> {q \in ps : q.loanId # loanId},
        installments |-> {i \in is : i.loanId # loanId},
        loans |-> {l \in ls : l.id # loanId}]

\* deleteLoanCascade for each loan of the sequence in turn.
RECURSIVE deleteLoansCascade(_, _, _, _, _)
deleteLoansCascade(ms, ps, is, ls, loanIds) ==
    IF loanIds = {} THEN [movements |-> ms, payments |-> ps,
                          installments |-> is, loans |-> ls]
    ELSE LET id == CHOOSE x \in loanIds : \A y \in loanIds : x <= y
             t == deleteLoanCascade(ms, ps, is, ls, id)
         IN deleteLoansCascade(t.movements, t.payments, t.installments,
                               t.loans, loanIds \ {id})

\* Whether the repair rewrites the due dates of the loan's installments.
needsRepair(is, loanId) ==
    LET rows == InstsOf(is, loanId)
    IN Cardinality(rows) > 1 /\ Cardinality({i.dueDate : i \in rows}) <= 1

\* ensureQuincenalInstallments(loan): the installments table after it.
ensureQuincenalInstallments(is, loan) ==
    IF ~needsRepair(is, loan.id) THEN is
    ELSE LET rows == OrderByNumber(InstsOf(is, loan.id))
             schedule == buildQuincenalSchedule(loan.loanDate,
                                                loan.installmentsCount)
             pos(i) == CHOOSE k \in 1..Len(rows) : rows[k].id = i.id
         IN {IF i.loanId = loan.id
             THEN [i EXCEPT !.dueDate = schedule[pos(i)]]
             ELSE i : i \in is}

---------------------------------------------------------------------------
(* Requests in flight (ConcSpec) *)

Procs == 1..NumProcs

NoRequest ==
    [clientId |-> NoId, loanId |-> NoId, installmentId |-> NoId, amount |-> 0,
     paymentDate |-> NoDate, payoff |-> FALSE, installmentsCount |-> 0,
     loanDate |-> NoDate]

NoPlan ==
    [code |-> 0, loanId |-> NoId, clientId |-> NoId, installmentId |-> NoId,
     paymentDate |-> NoDate, amount |-> 0, type |-> "none", rows |-> {},
     loan |-> [id |-> NoId]]

\* A connection slot with no request: the handler's local variables at rest.
Idle ==
    [op |-> "idle",        \* the handler
     pc |-> "idle",        \* the statement it is about to run
     rq |-> NoRequest,     \* req.body and req.params
     code |-> 0,           \* the HTTP status answered (0: none yet)
     loanId |-> NoId,      \* resolvedLoanId, or the loan being inserted/deleted
     cap |-> 0,            \* capital.amount as read
     wCap |-> 0,           \* capital.amount as written, not yet committed
     payId |-> NoId,       \* paymentResult.rows[0].id
     movId |-> NoId,       \* id of the movement inserted, not yet committed
     plan |-> NoPlan,      \* the payment's rows written, not yet committed
     wLoans |-> {},        \* loan rows inserted, not yet committed
     wInsts |-> {},        \* installment rows inserted, not yet committed
     todo |-> <<>>,        \* refresh: status UPDATEs still to run
     totals |-> [paidTotal |-> 0, pendingTotal |-> 0],
     late |-> 0,           \* statusCounts.rows[0].late
     payIds |-> {},        \* deleteLoanCascade: paymentIds
     dMovs |-> {},         \* ids of movements deleted, not yet committed
     dPays |-> {},         \* ids of payments deleted, not yet committed
     dInsts |-> {}]        \* ids of installments deleted, not yet committed

Free(p) == procs[p].pc \in {"idle", "done"}
Quiet == \A p \in Procs : Free(p)

\* The slot once its request is answered: what the response and the claims
\* read is kept, the rest is at rest.
Answered(p, code) ==
    [Idle EXCEPT !.op = procs[p].op, !.pc = "done", !.rq = procs[p].rq,
                 !.code = code, !.loanId = procs[p].loanId,
                 !.payId = procs[p].payId]

\* Row locks: FOR UPDATE, UPDATE and DELETE lock a row until the transaction
\* ends; a statement that needs a row another transaction holds waits.
LoanLock(id) == <<"loan", id>>
InstLock(id) == <<"inst", id>>
CapitalLock == <<"capital", 1>>
LockedByOther(p, rows) == \E k \in locks : k.row \in rows /\ k.by # p
Acquire(p, rows) == locks \cup {[row |-> r, by |-> p] : r \in rows}
Release(p) == {k \in locks : k.by # p}

\* Admission of a request in slot p.
Admit(p) ==
    /\ Free(p)
    /\ started < MaxRequests
    /\ started' = started + 1
    /\ snapshot' = IF started = 0
                   THEN [loans |-> loans, installments |-> installments,
                         clients |-> clients]
                   ELSE snapshot

---------------------------------------------------------------------------
(* Spec: one action per request handler, run from request to response *)

Init ==
    /\ capital = 0
    /\ movements = {}
    /\ clients = {}
    /\ loans = {}
    /\ installments = {}
    /\ payments = {}
    /\ nextId = [client |-> 1, loan |-> 1, installment |-> 1, payment |-> 1,
                 movement |-> 1]
    /\ today = Days[1]
    /\ utcOffset = 0
    /\ procs = [p \in Procs |-> Idle]
    /\ locks = {}
    /\ started = 0
    /\ snapshot = [loans |-> {}, installments |-> {}, clients |-> {}]

\* A request answered with an error status (400, 404, 500) before any write,
\* or after ROLLBACK: no table changes.
Rejected(code) == UNCHANGED dbVars

\* capitalDelta taking the new amount itself as the change: C26 fails.
capitalDeltaRaw(amount, current) == round2(amount, 1)

\* const delta = round2(amount - Number(current.amount))
capitalDelta(amount, current) == round2(amount - current, 1)

\* PUT /capital
PutCapital(amount) ==
    /\ IF amount < 0 THEN Rejected(400)
       ELSE LET delta == capitalDelta(amount, capital)
            IN /\ delta # 0 => nextId.movement <= MaxMovements
               /\ capital' = round2(amount, 1)
               /\ movements' =
                    IF delta # 0
                    THEN insertCapitalMovement(movements, nextId.movement,
                                               "manual_set", delta, NoId, NoId)
                    ELSE movements
               /\ nextId' = IF delta # 0
                            THEN [nextId EXCEPT !.movement = @ + 1] ELSE nextId
               /\ UNCHANGED <<clients, loans, installments, payments>>
    /\ UNCHANGED <<today, utcOffset, concVars>>

\* capitalWouldBeNegative that lets every adjustment through: C27 fails.
capitalWouldBeNegativeNever(next) == FALSE

\* if (next < 0) return res.status(400)
capitalWouldBeNegative(next) == next < 0

\* POST /capital/adjust
AdjustCapital(delta) ==
    /\ LET next == round2(capital + delta, 1)
       IN IF capitalWouldBeNegative(next) THEN Rejected(400)
          ELSE /\ nextId.movement <= MaxMovements
               /\ capital' = next
               /\ movements' =
                    insertCapitalMovement(movements, nextId.movement,
                                          "manual_adjust", delta, NoId, NoId)
               /\ nextId' = [nextId EXCEPT !.movement = @ + 1]
               /\ UNCHANGED <<clients, loans, installments, payments>>
    /\ UNCHANGED <<today, utcOffset, concVars>>

\* POST /clients
PostClient ==
    /\ nextId.client <= MaxClients
    /\ clients' = clients \cup {nextId.client}
    /\ nextId' = [nextId EXCEPT !.client = @ + 1]
    /\ UNCHANGED <<capital, movements, loans, installments, payments, today, utcOffset,
                   concVars>>

\* insufficientCapital that lets every loan through: C4 fails.
insufficientCapitalNever(cap, amount) == FALSE

\* The check POST /loans makes of the capital it has read.
insufficientCapital(cap, amount) == cap < amount

\* newInstallments giving every row the number 1: C23 fails.
newInstallmentsUnnumbered(loanId, instId, loanDate, n, installmentTotal) ==
    {InstallmentRow(instId + i - 1, loanId, 1, DueDate(loanDate, i),
                    installmentTotal) : i \in 1..n}

\* The rows POST /loans inserts for loan id with first installment id instId.
newInstallments(loanId, instId, loanDate, n, installmentTotal) ==
    {InstallmentRow(instId + i - 1, loanId, i, DueDate(loanDate, i),
                    installmentTotal) : i \in 1..n}

\* POST /loans
PostLoan(clientId, amount, n, loanDate) ==
    /\ IF clientId = NoId \/ amount <= 0 \/ n <= 0
       THEN Rejected(400)
       ELSE IF clientId \notin clients THEN Rejected(404)
       ELSE IF insufficientCapital(capital, amount) THEN Rejected(400)
       ELSE
         LET f == computeLoanFields(amount, n)
             loanDateValue == toDateOnly(loanDate)
             loanId == nextId.loan
         IN /\ nextId.loan <= MaxLoans
            /\ nextId.movement <= MaxMovements
            /\ loans' = loans \cup
                  {LoanRow(loanId, clientId, amount, loanDateValue, n, f)}
            /\ installments' = installments \cup
                  newInstallments(loanId, nextId.installment, loanDateValue, n,
                                  f.installmentTotal)
            /\ capital' = round2(capital - amount, 1)
            /\ movements' =
                  insertCapitalMovement(movements, nextId.movement, "loan",
                                        -amount, loanId, NoId)
            /\ nextId' = [nextId EXCEPT !.loan = @ + 1,
                                        !.installment = @ + n,
                                        !.movement = @ + 1]
            /\ UNCHANGED <<clients, payments>>
    /\ UNCHANGED <<today, utcOffset, concVars>>

\* POST /payments
PostPayment(rq) ==
    /\ LET plan == paymentPlan(loans, installments, clients, rq)
           after == servePayment(loans, installments, clients, rq)
       IN IF plan.code # 201 THEN Rejected(plan.code)
          ELSE /\ nextId.movement <= MaxMovements
               /\ payments' = payments \cup
                     {PaymentRow(nextId.payment, plan.clientId, plan.loanId,
                                 plan.installmentId, plan.paymentDate,
                                 plan.amount, plan.type)}
               /\ installments' = after.installments
               /\ loans' = after.loans
               /\ capital' = round2(capital + plan.amount, 1)
               /\ movements' =
                     insertCapitalMovement(movements, nextId.movement, plan.type,
                                           plan.amount, plan.loanId,
                                           nextId.payment)
               /\ nextId' = [nextId EXCEPT !.payment = @ + 1,
                                           !.movement = @ + 1]
               /\ UNCHANGED clients
    /\ UNCHANGED <<today, utcOffset, concVars>>

\* DELETE /loans/:id
DeleteLoan(loanId) ==
    /\ IF loanId \notin LoanIds(loans) THEN Rejected(404)
       ELSE LET t == deleteLoanCascade(movements, payments, installments,
                                       loans, loanId)
            IN /\ movements' = t.movements
               /\ payments' = t.payments
               /\ installments' = t.installments
               /\ loans' = t.loans
               /\ UNCHANGED <<capital, clients, nextId>>
    /\ UNCHANGED <<today, utcOffset, concVars>>

\* ownedLoanIds stopping at the first row: C19 fails.
ownedLoanIdsFirstOnly(ls, clientId) ==
    LET ids == {l.id : l \in {x \in ls : x.clientId = clientId}}
    IN {x \in ids : \A y \in ids : x <= y}

\* SELECT id FROM loans WHERE client_id = $1
ownedLoanIds(ls, clientId) ==
    {l.id : l \in {x \in ls : x.clientId = clientId}}

\* deleted_loans of the reply of DELETE /clients/:id
deletedLoans(ls, clientId) == Cardinality(ownedLoanIds(ls, clientId))

\* DELETE /clients/:id
DeleteClient(clientId) ==
    /\ IF clientId \notin clients THEN Rejected(404)
       ELSE LET owned == ownedLoanIds(loans, clientId)
                t == deleteLoansCascade(movements, payments, installments,
                                        loans, owned)
            IN \* payments.client_id REFERENCES clients(id): a payment of
               \* another client's loan that names this client makes
               \* DELETE FROM clients throw, and the transaction rolls back
               IF \E q \in t.payments : q.clientId = clientId
               THEN Rejected(500)
               ELSE /\ movements' = t.movements
                    /\ payments' = t.payments
                    /\ installments' = t.installments
                    /\ loans' = t.loans
                    /\ clients' = clients \ {clientId}
                    /\ UNCHANGED <<capital, nextId>>
    /\ UNCHANGED <<today, utcOffset, concVars>>

\* PUT /loans/:id/status followed by updateLoanTotalsAndStatus: C28 fails.
PutLoanStatusAggregated(loanId, status) ==
    /\ IF status \notin LoanStatuses THEN Rejected(400)
       ELSE IF loanId \notin LoanIds(loans) THEN Rejected(404)
       ELSE /\ installments' =
                 refreshInstallmentStatuses(installments, loanId, today)
            /\ loans' =
                 updateLoanTotalsAndStatus(
                     {IF l.id = loanId THEN [l EXCEPT !.status = status]
                      ELSE l : l \in loans},
                     installments', loanId)
            /\ UNCHANGED <<capital, movements, clients, payments, nextId>>
    /\ UNCHANGED <<today, utcOffset, concVars>>

\* PUT /loans/:id/status
PutLoanStatus(loanId, status) ==
    /\ IF status \notin LoanStatuses THEN Rejected(400)
       ELSE IF loanId \notin LoanIds(loans) THEN Rejected(404)
       ELSE /\ loans' = {IF l.id = loanId THEN [l EXCEPT !.status = status]
                         ELSE l : l \in loans}
            /\ UNCHANGED <<capital, movements, clients, installments, payments,
                           nextId>>
    /\ UNCHANGED <<today, utcOffset, concVars>>

\* GET /loans/:id
GetLoan(loanId) ==
    /\ IF loanId \notin LoanIds(loans) THEN Rejected(404)
       ELSE /\ installments' =
                 refreshInstallmentStatuses(
                     ensureQuincenalInstallments(installments,
                                                 LoanById(loans, loanId)),
                     loanId, today)
            /\ UNCHANGED <<capital, movements, clients, loans, payments,
                           nextId>>
    /\ UNCHANGED <<today, utcOffset, concVars>>

\* ensureQuincenalInstallments for each loan of the set in turn.
RECURSIVE repairAll(_, _)
repairAll(is, ls) ==
    IF ls = {} THEN is
    ELSE LET l == CHOOSE x \in ls : \A y \in ls : x.id <= y.id
         IN repairAll(ensureQuincenalInstallments(is, l), ls \ {l})

\* loans_fixed of the reply of POST /maintenance/fix-installment-dates: the
\* loans whose installments the run rewrites.
loansFixed(is, ls) == Cardinality({l \in ls : needsRepair(is, l.id)})

\* POST /maintenance/fix-installment-dates
FixInstallmentDates ==
    /\ installments' = repairAll(installments, loans)
    /\ UNCHANGED <<capital, movements, clients, loans, payments, nextId>>
    /\ UNCHANGED <<today, utcOffset, concVars>>

\* The calendar moves on to the next of the days.
DayPasses ==
    /\ \E k \in 1..(Len(Days) - 1) : today = Days[k] /\ today' = Days[k + 1]
    /\ UNCHANGED <<dbVars, utcOffset, concVars>>

Next ==
    \/ \E a \in CapitalAmounts \cup {-1} : PutCapital(a)
    \/ \E d \in Deltas : AdjustCapital(d)
    \/ PostClient
    \/ \E c \in 0..MaxClients, a \in LoanAmounts \cup {0},
          n \in InstallmentCounts \cup {0}, d \in LoanDates :
            PostLoan(c, a, n, d)
    \/ \E rq \in PaymentRequests : PostPayment(rq)
    \/ \E l \in 1..MaxLoans : DeleteLoan(l)
    \/ \E c \in 1..MaxClients : DeleteClient(c)
    \/ \E l \in 1..MaxLoans, s \in LoanStatuses \cup {"Otro"} :
            PutLoanStatus(l, s)
    \/ \E l \in 1..MaxLoans : GetLoan(l)
    \/ FixInstallmentDates
    \/ DayPasses

Spec == Init /\ [][Next]_vars

---------------------------------------------------------------------------
(* PaySpec: the payments of one loan, with amounts of the size the loan
   formulas are written for.  The ledger starts as PUT /capital, POST /clients,
   POST /loans and at most one POST /payments on the loan leave it. *)

PayLoans == {<<1000, 4>>, <<1000, 3>>}        \* {amount, installmentsCount}
PayFirstAmounts == {10 * k : k \in 0..120} \cup {5, 55, 333, 383}
PayAmounts == {50, 300}
PayRequests ==
    {[clientId |-> NoId, loanId |-> 1, installmentId |-> NoId, amount |-> 0,
      paymentDate |-> NoDate, payoff |-> TRUE]}
    \cup
    {[clientId |-> NoId, loanId |-> NoId, installmentId |-> i, amount |-> a,
      paymentDate |-> NoDate, payoff |-> FALSE] : i \in 1..4, a \in PayAmounts}
    \cup
    {[clientId |-> NoId, loanId |-> 1, installmentId |-> NoId, amount |-> a,
      paymentDate |-> NoDate, payoff |-> FALSE] : a \in PayAmounts}

PayInit ==
    /\ today = Days[1]
    /\ utcOffset = 0
    /\ procs = [p \in Procs |-> Idle]
    /\ locks = {}
    /\ started = 0
    /\ snapshot = [loans |-> {}, installments |-> {}, clients |-> {}]
    /\ clients = {1}
    /\ \E ln \in PayLoans, first \in PayFirstAmounts :
        LET amount == ln[1]
            n == ln[2]
            f == computeLoanFields(amount, n)
            loanDateValue == toDateOnly(NoDate)
            loan == LoanRow(1, 1, amount, loanDateValue, n, f)
            rows == newInstallments(1, 1, loanDateValue, n, f.installmentTotal)
            lent == insertCapitalMovement(
                        insertCapitalMovement({}, 1, "manual_set", amount, NoId,
                                              NoId),
                        2, "loan", -amount, 1, NoId)
            rq == [clientId |-> NoId, loanId |-> 1, installmentId |-> NoId,
                   amount |-> first, paymentDate |-> NoDate, payoff |-> FALSE]
            plan == paymentPlan({loan}, rows, {1}, rq)
            after == servePayment({loan}, rows, {1}, rq)
        IN IF plan.code = 201
           THEN /\ loans = after.loans
                /\ installments = after.installments
                /\ payments = {PaymentRow(1, plan.clientId, plan.loanId,
                                          plan.installmentId, plan.paymentDate,
                                          plan.amount, plan.type)}
                /\ capital = round2(plan.amount, 1)
                /\ movements = insertCapitalMovement(lent, 3, plan.type,
                                                     plan.amount, plan.loanId, 1)
                /\ nextId = [client |-> 2, loan |-> 2, installment |-> n + 1,
                             payment |-> 2, movement |-> 4]
           ELSE /\ loans = {loan}
                /\ installments = rows
                /\ payments = {}
                /\ capital = 0
                /\ movements = lent
                /\ nextId = [client |-> 2, loan |-> 2, installment |-> n + 1,
                             payment |-> 1, movement |-> 3]

PayNext == \E rq \in PayRequests : PostPayment(rq)

PaySpec == PayInit /\ [][PayNext]_vars

---------------------------------------------------------------------------
(* ClientSpec: two clients, their loans and payments, and the two DELETE
   handlers.  The ledger starts as PUT /capital and two POST /clients leave
   it. *)

ClientSpecClients == {1, 2}
ClientSpecPayments ==
    {[clientId |-> c, loanId |-> l, installmentId |-> NoId, amount |-> 14,
      paymentDate |-> NoDate, payoff |-> FALSE] :
        c \in {NoId} \cup ClientSpecClients, l \in 1..MaxLoans}
    \cup
    {[clientId |-> NoId, loanId |-> l, installmentId |-> NoId, amount |-> 0,
      paymentDate |-> NoDate, payoff |-> TRUE] : l \in 1..MaxLoans}

ClientInit ==
    /\ today = Days[1]
    /\ utcOffset = 0
    /\ procs = [p \in Procs |-> Idle]
    /\ locks = {}
    /\ started = 0
    /\ snapshot = [loans |-> {}, installments |-> {}, clients |-> {}]
    /\ clients = ClientSpecClients
    /\ capital = 50
    /\ movements = insertCapitalMovement({}, 1, "manual_set", 50, NoId, NoId)
    /\ loans = {}
    /\ installments = {}
    /\ payments = {}
    /\ nextId = [client |-> 3, loan |-> 1, installment |-> 1, payment |-> 1,
                 movement |-> 2]

ClientNext ==
    \/ \E c \in ClientSpecClients, a \in LoanAmounts, n \in InstallmentCounts,
          d \in LoanDates : PostLoan(c, a, n, d)
    \/ \E rq \in ClientSpecPayments : PostPayment(rq)
    \/ \E l \in 1..MaxLoans : DeleteLoan(l)
    \/ \E c \in ClientSpecClients : DeleteClient(c)

ClientSpec == ClientInit /\ [][ClientNext]_vars

---------------------------------------------------------------------------
(* ScheduleSpec: loans of many amounts, lengths and dates, on servers whose
   local time is behind, at or ahead of UTC, and the schedule repair.  The
   ledger starts as PUT /capital and POST /clients leave it, with or without
   one loan whose installments were all stored with the same due date (rows
   written before the schedule was quincenal, which the repair exists for). *)

UtcOffsets == {-5, 0, 2}
ScheduleAmounts == {1, 2, 3, 7, 10, 30, 50, 99, 1000}
ScheduleCounts == 1..4
ScheduleDates ==
    {20240101, 20240102, 20240115, 20240116, 20240131, 20240214, 20240229,
     20231216, 20231231}
ScheduleLoans ==
    {<<a, n, 20240110>> : a \in ScheduleAmounts, n \in ScheduleCounts}
    \cup {<<100, n, d>> : n \in ScheduleCounts, d \in ScheduleDates}
LegacyCounts == 0..3
LegacyDate == 20231120

\* The installments of a loan as stored with one due date for all of them.
legacyInstallments(loanId, instId, dueDate, n, installmentTotal) ==
    {InstallmentRow(instId + i - 1, loanId, i, dueDate, installmentTotal) :
        i \in 1..n}

ScheduleInit ==
    /\ today = Days[1]
    /\ utcOffset \in UtcOffsets
    /\ procs = [p \in Procs |-> Idle]
    /\ locks = {}
    /\ started = 0
    /\ snapshot = [loans |-> {}, installments |-> {}, clients |-> {}]
    /\ clients = {1}
    /\ payments = {}
    /\ \E n \in LegacyCounts :
          LET set == insertCapitalMovement({}, 1, "manual_set", 2000, NoId,
                                           NoId)
              f == computeLoanFields(100, n)
          IN IF n = 0
             THEN /\ capital = 2000
                  /\ movements = set
                  /\ loans = {}
                  /\ installments = {}
                  /\ nextId = [client |-> 2, loan |-> 1, installment |-> 1,
                               payment |-> 1, movement |-> 2]
             ELSE /\ capital = 1900
                  /\ movements =
                        insertCapitalMovement(set, 2, "loan", -100, 1, NoId)
                  /\ loans = {LoanRow(1, 1, 100, LegacyDate, n, f)}
                  /\ installments =
                        legacyInstallments(1, 1, LegacyDate, n,
                                           f.installmentTotal)
                  /\ nextId = [client |-> 2, loan |-> 2,
                               installment |-> n + 1, payment |-> 1,
                               movement |-> 3]

ScheduleNext ==
    \/ \E t \in ScheduleLoans : PostLoan(1, t[1], t[2], t[3])
    \/ \E l \in 1..MaxLoans : GetLoan(l)
    \/ FixInstallmentDates

ScheduleSpec == ScheduleInit /\ [][ScheduleNext]_vars

---------------------------------------------------------------------------
(* ConcSpec: the handlers statement by statement, NumProcs requests in flight.
   A statement run through pool.query commits at once; the statements of a
   transaction on clientConnection become visible together at COMMIT. *)

ConcCapitalAmounts == {0}
SetupCapitalAmounts == {40, 50}          \* capital the concurrent requests find
ConcDeltas == {-10, 10}
ConcInstallmentCounts == {1}
ConcPaymentRequests ==
    {rq \in PaymentRequests :
        /\ rq.clientId = NoId /\ rq.paymentDate = NoDate
        /\ rq.loanId \in {NoId, 1}
        /\ \/ rq.payoff
           \/ rq.installmentId = NoId /\ rq.amount \in {6, 28}
           \/ rq.installmentId # NoId /\ rq.amount = 14}

\* PUT /capital, up to and including getCapital()
StartPutCapital(p, amount) ==
    /\ Admit(p)
    /\ procs' = [procs EXCEPT ![p] =
          IF amount < 0
          THEN [Idle EXCEPT !.op = "PutCapital", !.pc = "done", !.code = 400,
                            !.rq = [NoRequest EXCEPT !.amount = amount]]
          ELSE [Idle EXCEPT !.op = "PutCapital", !.pc = "c_write",
                            !.rq = [NoRequest EXCEPT !.amount = amount],
                            !.cap = capital,
                            !.wCap = round2(amount, 1)]]
    /\ UNCHANGED <<dbVars, today, utcOffset, locks>>

\* POST /capital/adjust, up to and including the check of next
StartAdjustCapital(p, delta) ==
    /\ Admit(p)
    /\ LET next == round2(capital + delta, 1)
       IN procs' = [procs EXCEPT ![p] =
            IF next < 0
            THEN [Idle EXCEPT !.op = "AdjustCapital", !.pc = "done",
                              !.code = 400,
                              !.rq = [NoRequest EXCEPT !.amount = delta]]
            ELSE [Idle EXCEPT !.op = "AdjustCapital", !.pc = "c_write",
                              !.rq = [NoRequest EXCEPT !.amount = delta],
                              !.cap = capital, !.wCap = next]]
    /\ UNCHANGED <<dbVars, today, utcOffset, locks>>

\* setCapital(amount): UPDATE capital, which waits for a transaction that
\* has updated the row
CapitalWrite(p) ==
    /\ procs[p].pc = "c_write"
    /\ ~LockedByOther(p, {CapitalLock})
    /\ capital' = procs[p].wCap
    /\ LET delta == IF procs[p].op = "PutCapital"
                    THEN round2(procs[p].rq.amount - procs[p].cap, 1)
                    ELSE procs[p].rq.amount
       IN procs' = [procs EXCEPT ![p] =
            IF procs[p].op = "PutCapital" /\ delta = 0
            THEN Answered(p, 200)
            ELSE [@ EXCEPT !.pc = "c_move"]]
    /\ UNCHANGED <<movements, clients, loans, installments, payments, nextId,
                   today, utcOffset, locks, started, snapshot>>

\* insertCapitalMovement({type, amount}) of the two capital handlers
CapitalMove(p) ==
    /\ procs[p].pc = "c_move"
    /\ movements' =
          IF procs[p].op = "PutCapital"
          THEN insertCapitalMovement(movements, nextId.movement, "manual_set",
                   round2(procs[p].rq.amount - procs[p].cap, 1), NoId, NoId)
          ELSE insertCapitalMovement(movements, nextId.movement,
                   "manual_adjust", procs[p].rq.amount, NoId, NoId)
    /\ nextId' = [nextId EXCEPT !.movement = @ + 1]
    /\ procs' = [procs EXCEPT ![p] = Answered(p, 200)]
    /\ UNCHANGED <<capital, clients, loans, installments, payments, today, utcOffset,
                   locks, started, snapshot>>

\* Loans being created: their ids are taken when the INSERT runs.
LoansInFlight == Cardinality({q \in Procs : procs[q].pc \in {"l_capread", "l_insert"}})

\* POST /loans, validation and the SELECT of the client
StartPostLoan(p, clientId, amount, n, loanDate) ==
    /\ Admit(p)
    /\ nextId.loan + LoansInFlight <= MaxLoans
    /\ LET rq == [NoRequest EXCEPT !.clientId = clientId, !.amount = amount,
                                   !.installmentsCount = n,
                                   !.loanDate = loanDate]
           code == IF clientId = NoId \/ amount <= 0 \/ n <= 0 THEN 400
                   ELSE IF clientId \notin clients THEN 404 ELSE 0
       IN procs' = [procs EXCEPT ![p] =
            [Idle EXCEPT !.op = "PostLoan", !.rq = rq, !.code = code,
                         !.pc = IF code = 0 THEN "l_capread" ELSE "done"]]
    /\ UNCHANGED <<dbVars, today, utcOffset, locks>>

\* getCapital() and the check, before BEGIN
LoanCapitalRead(p) ==
    /\ procs[p].pc = "l_capread"
    /\ procs' = [procs EXCEPT ![p] =
          IF insufficientCapital(capital, procs[p].rq.amount)
          THEN Answered(p, 400)
          ELSE [@ EXCEPT !.pc = "l_insert", !.cap = capital]]
    /\ UNCHANGED <<dbVars, today, utcOffset, locks, started, snapshot>>

\* BEGIN, INSERT INTO loans, INSERT INTO installments
LoanInsert(p) ==
    /\ procs[p].pc = "l_insert"
    /\ LET rq == procs[p].rq
           f == computeLoanFields(rq.amount, rq.installmentsCount)
           loanDateValue == toDateOnly(rq.loanDate)
           loanId == nextId.loan
       IN /\ procs' = [procs EXCEPT ![p] =
                [@ EXCEPT !.pc = "l_capwrite", !.loanId = loanId,
                          !.wLoans = {LoanRow(loanId, rq.clientId, rq.amount,
                                              loanDateValue,
                                              rq.installmentsCount, f)},
                          !.wInsts = newInstallments(loanId,
                                         nextId.installment, loanDateValue,
                                         rq.installmentsCount,
                                         f.installmentTotal)]]
          /\ nextId' = [nextId EXCEPT !.loan = @ + 1,
                                      !.installment = @ + rq.installmentsCount]
    /\ UNCHANGED <<capital, movements, clients, loans, installments, payments,
                   today, utcOffset, locks, started, snapshot>>

\* UPDATE capital with newCapital, INSERT INTO capital_movements
LoanCapitalWrite(p) ==
    /\ procs[p].pc = "l_capwrite"
    /\ ~LockedByOther(p, {CapitalLock})
    /\ locks' = Acquire(p, {CapitalLock})
    /\ procs' = [procs EXCEPT ![p] =
          [@ EXCEPT !.pc = "l_commit",
                    !.wCap = round2(procs[p].cap - procs[p].rq.amount, 1),
                    !.movId = nextId.movement]]
    /\ nextId' = [nextId EXCEPT !.movement = @ + 1]
    /\ UNCHANGED <<capital, movements, clients, loans, installments, payments,
                   today, utcOffset, started, snapshot>>

\* COMMIT of POST /loans
LoanCommit(p) ==
    /\ procs[p].pc = "l_commit"
    /\ loans' = loans \cup procs[p].wLoans
    /\ installments' = installments \cup procs[p].wInsts
    /\ capital' = procs[p].wCap
    /\ movements' = insertCapitalMovement(movements, procs[p].movId, "loan",
                                          -procs[p].rq.amount, procs[p].loanId,
                                          NoId)
    /\ locks' = Release(p)
    /\ procs' = [procs EXCEPT ![p] = Answered(p, 201)]
    /\ UNCHANGED <<clients, payments, nextId, today, utcOffset, started, snapshot>>

\* POST /payments, validation and BEGIN
StartPayment(p, rq) ==
    /\ Admit(p)
    /\ LET targeted == ~rq.payoff /\ rq.installmentId # NoId
           r == [NoRequest EXCEPT !.clientId = rq.clientId,
                                  !.loanId = rq.loanId,
                                  !.installmentId = rq.installmentId,
                                  !.amount = rq.amount,
                                  !.paymentDate = rq.paymentDate,
                                  !.payoff = rq.payoff]
       IN procs' = [procs EXCEPT ![p] =
            IF ~paymentAmountOk(rq)
            THEN [Idle EXCEPT !.op = "PostPayment", !.pc = "done",
                              !.code = 400, !.rq = r]
            ELSE IF targeted
            THEN [Idle EXCEPT !.op = "PostPayment", !.pc = "p_inst", !.rq = r]
            ELSE IF rq.loanId = NoId
            THEN [Idle EXCEPT !.op = "PostPayment", !.pc = "done",
                              !.code = 400, !.rq = r]
            ELSE [Idle EXCEPT !.op = "PostPayment", !.pc = "p_loan", !.rq = r,
                              !.loanId = rq.loanId]]
    /\ UNCHANGED <<dbVars, today, utcOffset, locks>>

\* SELECT installments.* ... JOIN loans ... FOR UPDATE: the installment row
PayLockInstallment(p) ==
    /\ procs[p].pc = "p_inst"
    /\ LET id == procs[p].rq.installmentId
       IN IF id \notin {i.id : i \in installments}
          THEN /\ procs' = [procs EXCEPT ![p] = Answered(p, 404)]
               /\ locks' = Release(p)
          ELSE /\ ~LockedByOther(p, {InstLock(id)})
               /\ locks' = Acquire(p, {InstLock(id)})
               /\ procs' = [procs EXCEPT ![p] =
                     [@ EXCEPT !.pc = "p_instloan",
                               !.loanId = InstById(installments, id).loanId]]
    /\ UNCHANGED <<dbVars, today, utcOffset, started, snapshot>>

\* the same statement: the loan row of the join; SELECT * FROM loans ...
\* FOR UPDATE then finds the row locked by this transaction
PayLockInstallmentLoan(p) ==
    /\ procs[p].pc = "p_instloan"
    /\ ~LockedByOther(p, {LoanLock(procs[p].loanId)})
    /\ locks' = Acquire(p, {LoanLock(procs[p].loanId)})
    /\ procs' = [procs EXCEPT ![p] = [@ EXCEPT !.pc = "p_insts"]]
    /\ UNCHANGED <<dbVars, today, utcOffset, started, snapshot>>

\* SELECT * FROM loans WHERE id = $1 FOR UPDATE
PayLockLoan(p) ==
    /\ procs[p].pc = "p_loan"
    /\ IF procs[p].loanId \notin LoanIds(loans)
       THEN /\ procs' = [procs EXCEPT ![p] = Answered(p, 404)]
            /\ locks' = Release(p)
       ELSE /\ ~LockedByOther(p, {LoanLock(procs[p].loanId)})
            /\ locks' = Acquire(p, {LoanLock(procs[p].loanId)})
            /\ procs' = [procs EXCEPT ![p] = [@ EXCEPT !.pc = "p_insts"]]
    /\ UNCHANGED <<dbVars, today, utcOffset, started, snapshot>>

InstLocksOf(loanId) == {InstLock(i.id) : i \in InstsOf(installments, loanId)}

\* SELECT * FROM installments ... FOR UPDATE, the totals, the checks, INSERT
\* INTO payments and the UPDATEs of the installments (and of the loan, for a
\* payoff): all of it on rows this transaction holds
PayWrite(p) ==
    /\ procs[p].pc = "p_insts"
    /\ ~LockedByOther(p, InstLocksOf(procs[p].loanId))
    /\ LET plan == paymentPlan(loans, installments, clients, procs[p].rq)
       IN IF plan.code # 201
          THEN /\ procs' = [procs EXCEPT ![p] = Answered(p, plan.code)]
               /\ locks' = Release(p)
               /\ UNCHANGED nextId
          ELSE /\ procs' = [procs EXCEPT ![p] =
                     [@ EXCEPT !.pc = "p_capread", !.plan = plan,
                               !.payId = nextId.payment]]
               /\ locks' = Acquire(p, InstLocksOf(procs[p].loanId))
               /\ nextId' = [nextId EXCEPT !.payment = @ + 1]
    /\ UNCHANGED <<capital, movements, clients, loans, installments, payments,
                   today, utcOffset, started, snapshot>>

\* SELECT amount FROM capital WHERE id = 1
PayCapitalRead(p) ==
    /\ procs[p].pc = "p_capread"
    /\ procs' = [procs EXCEPT ![p] = [@ EXCEPT !.pc = "p_capwrite",
                                               !.cap = capital]]
    /\ UNCHANGED <<dbVars, today, utcOffset, locks, started, snapshot>>

\* UPDATE capital with nextCapital, INSERT INTO capital_movements
PayCapitalWrite(p) ==
    /\ procs[p].pc = "p_capwrite"
    /\ ~LockedByOther(p, {CapitalLock})
    /\ locks' = Acquire(p, {CapitalLock})
    /\ procs' = [procs EXCEPT ![p] =
          [@ EXCEPT !.pc = "p_commit",
                    !.wCap = round2(procs[p].cap + procs[p].plan.amount, 1),
                    !.movId = nextId.movement]]
    /\ nextId' = [nextId EXCEPT !.movement = @ + 1]
    /\ UNCHANGED <<capital, movements, clients, loans, installments, payments,
                   today, utcOffset, started, snapshot>>

\* COMMIT of POST /payments; updateLoanTotalsAndStatus comes after it
PayCommit(p) ==
    /\ procs[p].pc = "p_commit"
    /\ LET plan == procs[p].plan
       IN /\ payments' = payments \cup
                {PaymentRow(procs[p].payId, plan.clientId, plan.loanId,
                            plan.installmentId, plan.paymentDate, plan.amount,
                            plan.type)}
          /\ installments' = applyPaymentRows(installments, plan)
          /\ loans' = applyPaymentLoan(loans, plan)
          /\ capital' = procs[p].wCap
          /\ movements' = insertCapitalMovement(movements, procs[p].movId,
                                                plan.type, plan.amount,
                                                plan.loanId, procs[p].payId)
    /\ locks' = Release(p)
    /\ procs' = [procs EXCEPT ![p] = [@ EXCEPT !.pc = "r_read"]]
    /\ UNCHANGED <<clients, nextId, today, utcOffset, started, snapshot>>

\* The status UPDATEs refreshInstallmentStatuses issues for the rows it has
\* read, in the order of the rows.
RECURSIVE statusUpdates(_, _)
statusUpdates(rows, day) ==
    IF rows = {} THEN <<>>
    ELSE LET i == CHOOSE x \in rows : \A y \in rows : x.id <= y.id
             status == RefreshedStatus(i, day)
         IN (IF status # i.status THEN <<[id |-> i.id, status |-> status]>>
             ELSE <<>>) \o statusUpdates(rows \ {i}, day)

\* refreshInstallmentStatuses: the SELECT
RefreshRead(p) ==
    /\ procs[p].pc = "r_read"
    /\ LET todo == statusUpdates(InstsOf(installments, procs[p].loanId), today)
       IN procs' = [procs EXCEPT ![p] =
            [@ EXCEPT !.todo = todo,
                      !.pc = IF todo = <<>> THEN "r_totals" ELSE "r_write"]]
    /\ UNCHANGED <<dbVars, today, utcOffset, locks, started, snapshot>>

\* refreshInstallmentStatuses: one UPDATE installments SET status
RefreshWrite(p) ==
    /\ procs[p].pc = "r_write"
    /\ LET u == Head(procs[p].todo)
           rest == Tail(procs[p].todo)
       IN /\ ~LockedByOther(p, {InstLock(u.id)})
          /\ installments' = {IF i.id = u.id THEN [i EXCEPT !.status = u.status]
                              ELSE i : i \in installments}
          /\ procs' = [procs EXCEPT ![p] =
                [@ EXCEPT !.todo = rest,
                          !.pc = IF rest = <<>> THEN "r_totals" ELSE "r_write"]]
    /\ UNCHANGED <<capital, movements, clients, loans, payments, nextId, today, utcOffset,
                   locks, started, snapshot>>

\* updateLoanTotalsAndStatus: SELECT SUM(paid_amount), SUM(amount)
RefreshTotals(p) ==
    /\ procs[p].pc = "r_totals"
    /\ procs' = [procs EXCEPT ![p] =
          [@ EXCEPT !.pc = "r_counts",
                    !.totals = ReadTotals(InstsOf(installments,
                                                  procs[p].loanId))]]
    /\ UNCHANGED <<dbVars, today, utcOffset, locks, started, snapshot>>

\* updateLoanTotalsAndStatus: SELECT ... AS late
RefreshCounts(p) ==
    /\ procs[p].pc = "r_counts"
    /\ procs' = [procs EXCEPT ![p] =
          [@ EXCEPT !.pc = "r_loan",
                    !.late = LateCount(InstsOf(installments, procs[p].loanId))]]
    /\ UNCHANGED <<dbVars, today, utcOffset, locks, started, snapshot>>

\* updateLoanTotalsAndStatus: UPDATE loans, then the 201 response
RefreshLoan(p) ==
    /\ procs[p].pc = "r_loan"
    /\ ~LockedByOther(p, {LoanLock(procs[p].loanId)})
    /\ loans' = WriteLoanTotals(loans, procs[p].loanId, procs[p].totals,
                                AggregateStatus(procs[p].totals.pendingTotal,
                                                procs[p].late))
    /\ procs' = [procs EXCEPT ![p] = Answered(p, 201)]
    /\ UNCHANGED <<capital, movements, clients, installments, payments, nextId,
                   today, utcOffset, locks, started, snapshot>>

\* A query of updateLoanTotalsAndStatus throws: the catch block sends ROLLBACK
\* on clientConnection, whose transaction is already committed, and rethrows
RefreshFails(p) ==
    /\ procs[p].pc \in {"r_read", "r_write", "r_totals", "r_counts", "r_loan"}
    /\ procs' = [procs EXCEPT ![p] = Answered(p, 500)]
    /\ UNCHANGED <<dbVars, today, utcOffset, locks, started, snapshot>>

\* DELETE /loans/:id: BEGIN and SELECT id FROM loans
StartDeleteLoan(p, loanId) ==
    /\ Admit(p)
    /\ procs' = [procs EXCEPT ![p] =
          [Idle EXCEPT !.op = "DeleteLoan", !.loanId = loanId,
                       !.rq = [NoRequest EXCEPT !.loanId = loanId],
                       !.code = IF loanId \in LoanIds(loans) THEN 0 ELSE 404,
                       !.pc = IF loanId \in LoanIds(loans) THEN "d_ids"
                              ELSE "done"]]
    /\ UNCHANGED <<dbVars, today, utcOffset, locks>>

\* deleteLoanCascade: SELECT id FROM payments WHERE loan_id = $1
DeletePaymentIds(p) ==
    /\ procs[p].pc = "d_ids"
    /\ procs' = [procs EXCEPT ![p] =
          [@ EXCEPT !.pc = "d_movs",
                    !.payIds = {q.id : q \in {x \in payments :
                                                x.loanId = procs[p].loanId}}]]
    /\ UNCHANGED <<dbVars, today, utcOffset, locks, started, snapshot>>

\* deleteLoanCascade: the two DELETE FROM capital_movements
DeleteMovements(p) ==
    /\ procs[p].pc = "d_movs"
    /\ procs' = [procs EXCEPT ![p] =
          [@ EXCEPT !.pc = "d_pays",
                    !.dMovs = {m.id : m \in {x \in movements :
                                   \/ x.loanId = procs[p].loanId
                                   \/ x.paymentId \in procs[p].payIds}}]]
    /\ UNCHANGED <<dbVars, today, utcOffset, locks, started, snapshot>>

\* deleteLoanCascade: DELETE FROM payments WHERE loan_id = $1
DeletePayments(p) ==
    /\ procs[p].pc = "d_pays"
    /\ procs' = [procs EXCEPT ![p] =
          [@ EXCEPT !.pc = "d_insts",
                    !.dPays = {q.id : q \in {x \in payments :
                                               x.loanId = procs[p].loanId}}]]
    /\ UNCHANGED <<dbVars, today, utcOffset, locks, started, snapshot>>

\* deleteLoanCascade: DELETE FROM installments WHERE loan_id = $1; a payment
\* the transaction has not deleted and that references one of the rows
\* violates payments.installment_id REFERENCES installments(id)
DeleteInstallments(p) ==
    /\ procs[p].pc = "d_insts"
    /\ ~LockedByOther(p, InstLocksOf(procs[p].loanId))
    /\ LET ids == {i.id : i \in InstsOf(installments, procs[p].loanId)}
       IN IF \E q \in payments : q.id \notin procs[p].dPays
                                  /\ q.installmentId \in ids
          THEN /\ procs' = [procs EXCEPT ![p] = Answered(p, 500)]
               /\ locks' = Release(p)
          ELSE /\ procs' = [procs EXCEPT ![p] =
                     [@ EXCEPT !.pc = "d_loan", !.dInsts = ids]]
               /\ locks' = Acquire(p, InstLocksOf(procs[p].loanId))
    /\ UNCHANGED <<dbVars, today, utcOffset, started, snapshot>>

\* deleteLoanCascade: DELETE FROM loans WHERE id = $1, and COMMIT; a payment
\* of the loan the transaction has not deleted violates payments.loan_id
\* REFERENCES loans(id)
DeleteLoanCommit(p) ==
    /\ procs[p].pc = "d_loan"
    /\ ~LockedByOther(p, {LoanLock(procs[p].loanId)})
    /\ locks' = Release(p)
    /\ IF \E q \in payments : q.id \notin procs[p].dPays
                               /\ q.loanId = procs[p].loanId
       THEN /\ procs' = [procs EXCEPT ![p] = Answered(p, 500)]
            /\ UNCHANGED <<movements, payments, installments, loans>>
       ELSE /\ procs' = [procs EXCEPT ![p] = Answered(p, 200)]
            /\ movements' = {m \in movements : m.id \notin procs[p].dMovs}
            /\ payments' = {q \in payments : q.id \notin procs[p].dPays}
            /\ installments' = {i \in installments :
                                    i.id \notin procs[p].dInsts}
            /\ loans' = {l \in loans : l.id # procs[p].loanId}
    /\ UNCHANGED <<capital, clients, nextId, today, utcOffset, started, snapshot>>

\* The rows the statement a transaction is about to run has to lock.
Needs(p) ==
    LET pc == procs[p].pc
    IN IF pc = "p_inst" THEN {InstLock(procs[p].rq.installmentId)}
       ELSE IF pc \in {"p_instloan", "p_loan", "d_loan"}
            THEN {LoanLock(procs[p].loanId)}
       ELSE IF pc \in {"p_insts", "d_insts"} THEN InstLocksOf(procs[p].loanId)
       ELSE IF pc \in {"p_capwrite", "l_capwrite"} THEN {CapitalLock}
       ELSE {}

WaitsFor(p) == {k.by : k \in {x \in locks : x.row \in Needs(p) /\ x.by # p}}

RECURSIVE WaitsForClosure(_, _)
WaitsForClosure(ps, n) ==
    IF n = 0 THEN ps
    ELSE WaitsForClosure(ps \cup UNION {WaitsFor(q) : q \in ps}, n - 1)

\* The database finds p in a cycle of transactions waiting for each other and
\* makes its statement fail: the catch block rolls back and rethrows
DeadlockAbort(p) ==
    /\ WaitsFor(p) # {}
    /\ p \in WaitsForClosure(WaitsFor(p), NumProcs)
    /\ procs' = [procs EXCEPT ![p] = Answered(p, 500)]
    /\ locks' = Release(p)
    /\ UNCHANGED <<dbVars, today, utcOffset, started, snapshot>>

\* The tables the requests start from are built by requests served one at a
\* time before the first concurrent request is admitted.
Setup ==
    /\ started = 0
    /\ \/ PostClient
       \/ movements = {} /\ \E a \in SetupCapitalAmounts : PutCapital(a)
       \/ \E a \in LoanAmounts, n \in InstallmentCounts, d \in LoanDates :
             PostLoan(1, a, n, d)
       \/ DayPasses

ConcNext ==
    \/ Setup
    \/ \E p \in Procs :
        \/ \E a \in ConcCapitalAmounts : StartPutCapital(p, a)
        \/ \E d \in ConcDeltas : StartAdjustCapital(p, d)
        \/ CapitalWrite(p)
        \/ CapitalMove(p)
        \/ \E a \in LoanAmounts, n \in ConcInstallmentCounts, d \in LoanDates :
              StartPostLoan(p, 1, a, n, d)
        \/ LoanCapitalRead(p)
        \/ LoanInsert(p)
        \/ LoanCapitalWrite(p)
        \/ LoanCommit(p)
        \/ \E rq \in ConcPaymentRequests : StartPayment(p, rq)
        \/ PayLockInstallment(p)
        \/ PayLockInstallmentLoan(p)
        \/ PayLockLoan(p)
        \/ PayWrite(p)
        \/ PayCapitalRead(p)
        \/ PayCapitalWrite(p)
        \/ PayCommit(p)
        \/ RefreshRead(p)
        \/ RefreshWrite(p)
        \/ RefreshTotals(p)
        \/ RefreshCounts(p)
        \/ RefreshLoan(p)
        \/ RefreshFails(p)
        \/ StartDeleteLoan(p, 1)
        \/ DeletePaymentIds(p)
        \/ DeleteMovements(p)
        \/ DeletePayments(p)
        \/ DeleteInstallments(p)
        \/ DeleteLoanCommit(p)
        \/ DeadlockAbort(p)

ConcSpec == Init /\ [][ConcNext]_vars

---------------------------------------------------------------------------
(* Claims *)

PaidOf(loanId) == SumPaid(InstsOf(installments, loanId))
OwedOf(loanId) == SumAmount(InstsOf(installments, loanId))
PaymentsOf(loanId) == {q \in payments : q.loanId = loanId}

\* C1: after any sequence of requests served one at a time, starting from
\* capital 0 and no movement, capital.amount is the sum of the amounts of the
\* capital movements stored.
C1_CapitalIsSumOfMovements == capital = SumAmount(movements)

\* C5: what a payment stores in its Payment row and credits to capital is what
\* it added to the paidAmount of the loan's installments: for every loan the
\* amounts of its payments add up to the paidAmount of its installments.
C5_PaymentsAreApplied ==
    \A l \in loans : SumAmount(PaymentsOf(l.id)) = PaidOf(l.id)

\* C8: for every loan, once a payment or payoff and its aggregator refresh are
\* over, paidTotal + pendingTotal is the sum of the amounts of its installments.
C8_TotalsAddUp ==
    \A l \in loans : l.paidTotal + l.pendingTotal = OwedOf(l.id)

\* C8 witness: a payoff has been served on a loan that had a partial payment,
\* so that the loan's installment amounts have been rewritten.
C8_Witness ==
    \E l \in loans :
        /\ \E q \in PaymentsOf(l.id) : q.type = "payoff"
        /\ \E q \in PaymentsOf(l.id) : q.type = "payment"
        /\ OwedOf(l.id) # l.installmentTotal * l.installmentsCount
        /\ l.paidTotal > 0

\* C9: every installment has 0 <= paidAmount <= amount, whatever payments
\* (on the loan or on an installment) and payoffs have been served.
C9_PaidWithinAmount ==
    \A i \in installments : 0 <= i.paidAmount /\ i.paidAmount <= i.amount

\* C9 witness: a payment on an installment has left it partly paid while an
\* earlier installment of the loan is unpaid.
C9_Witness ==
    \E i, j \in installments :
        /\ i.loanId = j.loanId /\ j.number < i.number
        /\ 0 < i.paidAmount /\ i.paidAmount < i.amount /\ j.paidAmount = 0
        /\ \E q \in payments : q.installmentId = i.id

\* C10: no step lowers the paidAmount of an installment: payments, payoffs,
\* status refreshes and schedule repairs leave it equal or higher.
C10_PaidNeverDecreases ==
    [][\A i \in installments : \A j \in installments' :
          j.id = i.id => j.paidAmount >= i.paidAmount]_vars

\* C10 witness: an installment that already held a partial payment has been
\* paid further.
C10_Witness ==
    \E i \in installments :
        /\ i.paidAmount > 0
        /\ Cardinality({q \in PaymentsOf(i.loanId) : q.amount > 0}) >= 2


\* C2: with requests interleaved statement by statement, once every request is
\* answered and no movement has been deleted, capital.amount is the sum of the
\* amounts of the capital movements: no update of the capital is lost.
C2_NoLostUpdate ==
    (Quiet /\ Cardinality(movements) = nextId.movement - 1)
        => capital = SumAmount(movements)

\* The two requests of a run were payments answered 201 or 400 that resolved
\* to the same loan, which is still there.
TwoPaymentsOn(loanId) ==
    /\ started = 2 /\ Quiet
    /\ loanId \in LoanIds(loans)
    /\ \A p \in {1, 2} : /\ procs[p].op = "PostPayment"
                         /\ procs[p].code \in {201, 400}
                         /\ procs[p].loanId = loanId

\* The installments of loanId after rq1 then rq2 served one after the other
\* on the tables the two requests started from.
SerialInstallments(loanId, rq1, rq2) ==
    LET s1 == servePayment(snapshot.loans, snapshot.installments,
                           snapshot.clients, rq1)
        s2 == servePayment(s1.loans, s1.installments, snapshot.clients, rq2)
    IN InstsOf(s2.installments, loanId)

\* C3: two payments on the same loan serialize: whatever the interleaving,
\* once both are answered the loan's installments are those that serving the
\* two requests one after the other, in one of the two orders, leaves.
C3_PaymentsSerialize ==
    \A l \in 1..MaxLoans :
        TwoPaymentsOn(l) =>
            InstsOf(installments, l) \in
                {SerialInstallments(l, procs[1].rq, procs[2].rq),
                 SerialInstallments(l, procs[2].rq, procs[1].rq)}

\* C4: capital.amount is never negative, whatever the interleaving of the
\* statements of the requests.
C4_CapitalNonNegative == capital >= 0

\* C4 witness: requests that read the same capital have both written it, and
\* the capital is not negative although the movements add up to less than 0.
C4_Witness ==
    /\ Quiet /\ started = MaxRequests
    /\ Cardinality(movements) = nextId.movement - 1
    /\ SumAmount(movements) < 0

\* C6: a payment whose aggregator refresh failed has left none of its writes:
\* the Payment row of a request answered 500 is not stored.
C6_FailedRefreshRollsBack ==
    \A p \in Procs :
        (procs[p].op = "PostPayment" /\ procs[p].pc = "done"
         /\ procs[p].code = 500 /\ procs[p].payId # NoId)
            => procs[p].payId \notin {q.id : q \in payments}

\* C7: no committed state shows a payment's installments without the loan's
\* totals: in every state the paidTotal and pendingTotal stored with a loan
\* are those its stored installments add up to.
C7_TotalsVisibleTogether ==
    \A l \in loans :
        /\ l.paidTotal = PaidOf(l.id)
        /\ l.pendingTotal = OwedOf(l.id) - PaidOf(l.id)

\* The step inserts a Payment row: a payment or payoff has succeeded.
PaymentAccepted == nextId'.payment # nextId.payment

\* C11: a request that inserts a Payment row inserts exactly one, and exactly
\* one capital movement, which carries the payment's id, loan, type and
\* amount; capital.amount grows by that amount.
C11_PaymentIsCredited ==
    [][PaymentAccepted =>
        \E q \in payments' : \E m \in movements' :
            /\ q \notin payments /\ payments' = payments \cup {q}
            /\ m \notin movements /\ movements' = movements \cup {m}
            /\ q.type \in {"payment", "payoff"}
            /\ m.paymentId = q.id /\ m.loanId = q.loanId
            /\ m.type = q.type /\ m.amount = q.amount
            /\ capital' = capital + q.amount]_vars

\* C11 witness: a payment and a payoff have both been accepted.
C11_Witness ==
    /\ \E q \in payments : q.type = "payment"
    /\ \E q \in payments : q.type = "payoff"

\* The step inserts a loan row: a loan creation has succeeded.
LoanCreated == nextId'.loan # nextId.loan

\* C12: a request that inserts a loan does so with capital.amount at least the
\* loan's amount, lowers the capital by that amount and appends one movement
\* of type loan with minus that amount and the new loan's id; a POST /loans
\* whose amount exceeds the capital leaves loans, installments, movements and
\* capital as they were.
C12_LoanIsDebited ==
    [][/\ LoanCreated =>
            \E l \in loans' : \E m \in movements' :
                /\ l \notin loans /\ loans' = loans \cup {l}
                /\ capital >= l.amount
                /\ capital' = capital - l.amount
                /\ m \notin movements /\ movements' = movements \cup {m}
                /\ m.type = "loan" /\ m.amount = -l.amount
                /\ m.loanId = l.id /\ m.paymentId = NoId
       /\ \A c \in 0..MaxClients, a \in LoanAmounts, n \in InstallmentCounts,
             d \in LoanDates :
            (a > capital /\ PostLoan(c, a, n, d))
                => UNCHANGED <<loans, installments, movements, capital>>]_vars

\* C12 witness: the latest movement is that of a loan which took all of the
\* capital there was.
C12_Witness ==
    /\ capital = 0
    /\ \E m \in movements :
          /\ m.type = "loan" /\ m.loanId \in LoanIds(loans)
          /\ \A x \in movements : x.id <= m.id

\* The principal an installment still owes, as the claim words it.
PrincipalOwed(loan, inst) ==
    loan.baseInstallment -
        Min(loan.baseInstallment,
            Max(0, inst.paidAmount - loan.interestPerInstallment))

\* The sum of the principal owed over the rows that owe some.
RECURSIVE PrincipalOwedSum(_, _)
PrincipalOwedSum(loan, rows) ==
    IF rows = {} THEN 0
    ELSE LET i == CHOOSE x \in rows : TRUE
         IN Max(0, PrincipalOwed(loan, i)) + PrincipalOwedSum(loan, rows \ {i})

PayoffOf(loanId) ==
    [clientId |-> NoId, loanId |-> loanId, installmentId |-> NoId, amount |-> 0,
     paymentDate |-> NoDate, payoff |-> TRUE]

\* The loan has one installment that owes something, it has paid nothing, and
\* the loan's base is 250 and its interest 50.
OneUnpaid250(l) ==
    /\ l.baseInstallment = 250 /\ l.interestPerInstallment = 50
    /\ \E i \in InstsOf(installments, l.id) :
          /\ i.paidAmount = 0
          /\ \A j \in InstsOf(installments, l.id) \ {i} :
                j.paidAmount >= j.amount

\* C13: a payoff charges the sum, over the loan's installments, of the
\* principal each still owes (base minus what was paid beyond the interest,
\* capped at base), where that is positive; with nothing owed it is rejected
\* and changes nothing; one unpaid installment of base 250 and interest 50 is
\* charged 250.
C13_PayoffCharge ==
    [][\A l \in loans :
        PostPayment(PayoffOf(l.id)) =>
            LET owed == PrincipalOwedSum(l, InstsOf(installments, l.id))
            IN /\ owed <= 0 => UNCHANGED dbVars
               /\ owed > 0 =>
                    \E q \in payments' : /\ q \notin payments
                                          /\ q.type = "payoff"
                                          /\ q.amount = owed
               /\ OneUnpaid250(l) =>
                    \E q \in payments' : q \notin payments /\ q.amount = 250]_vars

\* C13 witness: after a payment of 900 had paid three of its four
\* installments, a payoff has charged 250 on a loan of base 250, interest 50.
C13_Witness ==
    /\ \E q \in payments : \E p \in payments :
          /\ q.type = "payoff" /\ q.amount = 250
          /\ p.type = "payment" /\ p.amount = 900 /\ p.loanId = q.loanId
          /\ LoanById(loans, q.loanId).baseInstallment = 250
          /\ LoanById(loans, q.loanId).interestPerInstallment = 50

\* The step is a successful payoff whose Payment row is q.
PayoffAccepted(q) ==
    /\ q \in payments' /\ q \notin payments /\ q.type = "payoff"

\* What a payoff leaves of the loan row, given its installments.
PaidOffLoan(l, rows) ==
    /\ l.totalPayable = SumAmount(rows) /\ l.paidTotal = SumAmount(rows)
    /\ l.pendingTotal = 0 /\ l.status = "Finalizado"

\* C14 as claimed: after a successful payoff every installment of the loan
\* has amount = paidAmount, status Pagada and paidDate the payoff's payment
\* date, and the loan has totalPayable = paidTotal = the sum of the
\* installment amounts, pendingTotal 0 and status Finalizado.
C14_PayoffRewritesAll ==
    [][\A q \in payments' :
        PayoffAccepted(q) =>
            /\ \A i \in InstsOf(installments', q.loanId) :
                  /\ i.amount = i.paidAmount /\ i.status = "Pagada"
                  /\ i.paidDate = q.paymentDate
            /\ PaidOffLoan(LoanById(loans', q.loanId),
                           InstsOf(installments', q.loanId))]_vars

\* C14 as amended: after a successful payoff every installment of the loan
\* has amount = paidAmount and status Pagada; those not paid in full before
\* the payoff have paidDate the payoff's payment date, those paid in full
\* before it are left as they were; the loan has totalPayable = paidTotal =
\* the sum of the installment amounts, pendingTotal 0 and status Finalizado.
C14_PayoffRewritesUnpaid ==
    [][\A q \in payments' :
        PayoffAccepted(q) =>
            /\ \A i \in InstsOf(installments, q.loanId) :
                  LET j == InstById(installments', i.id)
                  IN /\ j \in installments'
                     /\ j.amount = j.paidAmount /\ j.status = "Pagada"
                     /\ i.paidAmount < i.amount => j.paidDate = q.paymentDate
                     /\ i.paidAmount >= i.amount => j = i
            /\ PaidOffLoan(LoanById(loans', q.loanId),
                           InstsOf(installments', q.loanId))]_vars

\* C14 witness: a payoff has been served on a loan one of whose installments
\* had been paid in full on another date.
C14_Witness ==
    \E q \in payments : \E i, j \in InstsOf(installments, q.loanId) :
        /\ q.type = "payoff"
        /\ i.paidDate = q.paymentDate /\ j.paidDate # q.paymentDate
        /\ i.status = "Pagada" /\ j.status = "Pagada"

\* The request is a well-formed payment or payoff that resolves to the loan.
PaysLoan(rq, loanId) ==
    /\ paymentAmountOk(rq)
    /\ IF ~rq.payoff /\ rq.installmentId # NoId
       THEN \E i \in installments : i.id = rq.installmentId
                                     /\ i.loanId = loanId
       ELSE rq.loanId = loanId

PaidOff(loanId) == \E q \in PaymentsOf(loanId) : q.type = "payoff"

\* C15: a payment or payoff on a loan whose installments owe nothing
\* (sum of amount - sum of paidAmount <= 0) is rejected with status 400, and a
\* loan on which a payoff has succeeded owes nothing: every payment or payoff
\* on it is rejected from then on.
C15_PaidLoanRejectsPayments ==
    \A l \in loans :
        /\ PaidOff(l.id) => OwedOf(l.id) - PaidOf(l.id) <= 0
        /\ OwedOf(l.id) - PaidOf(l.id) <= 0 =>
              \A rq \in PaymentRequests :
                  PaysLoan(rq, l.id) =>
                      paymentPlan(loans, installments, clients, rq).code = 400

\* C15 witness: a loan paid off while it still owed interest.
C15_Witness ==
    \E l \in loans :
        /\ PaidOff(l.id)
        /\ OwedOf(l.id) < l.installmentTotal * l.installmentsCount

\* The reasons the claim lists for rejecting a request, read off the tables.
BadCapital(amount) == amount < 0
BadDelta(delta) == capital + delta < 0
BadLoan(clientId, amount, n) ==
    \/ amount <= 0 \/ n <= 0
    \/ clientId \notin clients
    \/ amount > capital
BadPayment(rq) ==
    LET targeted == ~rq.payoff /\ rq.installmentId # NoId
    IN \/ ~rq.payoff /\ rq.amount <= 0
       \/ IF targeted
          THEN \A i \in installments : i.id # rq.installmentId
          ELSE rq.loanId \notin LoanIds(loans)
       \/ \E l \in loans :
            /\ PaysLoan(rq, l.id)
            /\ \/ OwedOf(l.id) - PaidOf(l.id) <= 0
               \/ ~rq.payoff /\ rq.amount > OwedOf(l.id) - PaidOf(l.id)

\* C16: a request rejected for one of these reasons (negative capital asked
\* or resulting, invalid or unaffordable loan, missing client, loan or
\* installment, invalid or excessive payment, loan already paid) leaves
\* capital, movements, clients, loans, installments and payments as they
\* were: no step that changes a table is the serving of such a request.
C16_RejectionChangesNothing ==
    [][dbVars' # dbVars =>
        /\ \A a \in CapitalAmounts \cup {-1} : BadCapital(a) => ~PutCapital(a)
        /\ \A d \in Deltas : BadDelta(d) => ~AdjustCapital(d)
        /\ \A c \in 0..MaxClients, a \in LoanAmounts \cup {0},
              n \in InstallmentCounts \cup {0}, d \in LoanDates :
                BadLoan(c, a, n) => ~PostLoan(c, a, n, d)
        /\ \A rq \in PaymentRequests : BadPayment(rq) => ~PostPayment(rq)
        /\ \A l \in 1..MaxLoans :
                l \notin LoanIds(loans) => ~DeleteLoan(l)
        /\ \A c \in 1..MaxClients : c \notin clients => ~DeleteClient(c)]_vars

\* C16 witness: one loan is paid off and another owes less than a payment
\* that can be asked for, so that payments are rejected as already paid and
\* as exceeding the pending total.
C16_Witness ==
    \E l1, l2 \in loans :
        /\ PaidOff(l1.id)
        /\ OwedOf(l2.id) - PaidOf(l2.id) > 0
        /\ \E a \in PaymentAmounts : a > OwedOf(l2.id) - PaidOf(l2.id)

\* The loans a step deletes, and the payments that were theirs.
LoansGone == LoanIds(loans) \ LoanIds(loans')
PaymentsGone == {q.id : q \in {x \in payments : x.loanId \in LoansGone}}

\* C17: a step that deletes loans leaves no installment, payment or capital
\* movement that referenced one of them (or one of their payments) and
\* leaves every other row of the three tables as it was; DELETE /loans/:id of
\* a stored loan deletes that loan and no other.
C17_DeleteLoanCascades ==
    [][/\ LoansGone # {} =>
            /\ installments' = {i \in installments : i.loanId \notin LoansGone}
            /\ payments' = {q \in payments : q.loanId \notin LoansGone}
            /\ movements' = {m \in movements :
                                /\ m.loanId \notin LoansGone
                                /\ m.paymentId \notin PaymentsGone}
            /\ loans' = {l \in loans : l.id \notin LoansGone}
       /\ \A id \in LoanIds(loans) : DeleteLoan(id) => LoansGone = {id}]_vars

\* C17 witness: a loan that had a payment has been deleted and another loan
\* is still there.
C17_Witness ==
    /\ nextId.payment > 1 /\ payments = {}
    /\ Cardinality(loans) = 1 /\ nextId.loan > 2
    /\ \E m \in movements : m.type = "loan"

\* A DELETE /loans/:id and a POST /payments on the same loan have both been
\* answered with success, and nothing else is in flight.
DeleteMetPayment ==
    /\ Quiet
    /\ \E p, r \in Procs :
          /\ procs[p].op = "DeleteLoan" /\ procs[r].op = "PostPayment"
          /\ procs[p].pc = "done" /\ procs[r].pc = "done"
          /\ procs[p].code = 200 /\ procs[r].code = 201
          /\ procs[p].loanId = procs[r].loanId

\* No row refers to a loan or a payment that is not stored.
NoOrphans ==
    /\ \A i \in installments : i.loanId \in LoanIds(loans)
    /\ \A q \in payments : q.loanId \in LoanIds(loans)
    /\ \A m \in movements :
          /\ m.loanId # NoId => m.loanId \in LoanIds(loans)
          /\ m.paymentId # NoId => m.paymentId \in {q.id : q \in payments}

\* C18: once a delete-loan request and a payment request on the same loan,
\* interleaved statement by statement, have both finished, no capital
\* movement, payment or installment refers to a loan or payment that no
\* longer exists.
C18_DeleteLeavesNoOrphans == DeleteMetPayment => NoOrphans


\* C19: DELETE /clients/:id of a stored client either changes nothing or
\* removes the client row together with every loan of that client and the
\* installments, payments and capital movements of those loans, leaves every
\* other row and the capital as they were, and reports as deleted_loans the
\* number of loans it removed; DELETE /clients/:id of an absent client and
\* DELETE /loans/:id of an absent loan change nothing.
C19_DeleteClientCascades ==
    [][/\ \A c \in clients :
            DeleteClient(c) =>
               \/ UNCHANGED dbVars
               \/ /\ clients' = clients \ {c}
                  /\ LoansGone = {l.id : l \in {x \in loans : x.clientId = c}}
                  /\ deletedLoans(loans, c) = Cardinality(LoansGone)
                  /\ loans' = {l \in loans : l.clientId # c}
                  /\ installments' =
                        {i \in installments : i.loanId \notin LoansGone}
                  /\ payments' = {q \in payments : q.loanId \notin LoansGone}
                  /\ movements' = {m \in movements :
                                      /\ m.loanId \notin LoansGone
                                      /\ m.paymentId \notin PaymentsGone}
                  /\ capital' = capital
       /\ \A c \in ClientSpecClients \ clients :
            DeleteClient(c) => UNCHANGED dbVars
       /\ \A l \in (1..MaxLoans) \ LoanIds(loans) :
            DeleteLoan(l) => UNCHANGED dbVars
       /\ clients' # clients =>
            \E c \in clients : DeleteClient(c) /\ clients' = clients \ {c}]_vars

\* C19 witness: two loans were made and a payment taken, one client is gone,
\* and what is left is one loan of the other client with its installments and
\* its loan movement, and no payment.
C19_Witness ==
    /\ Cardinality(clients) = 1
    /\ nextId.loan = 3 /\ nextId.payment > 1
    /\ payments = {}
    /\ Cardinality(loans) = 1
    /\ \A l \in loans : /\ l.clientId \in clients
                         /\ InstsOf(installments, l.id) # {}
                         /\ \E m \in movements : m.loanId = l.id
    /\ \A m \in movements : m.loanId \in {NoId} \cup LoanIds(loans)

\* C20: an installment whose status is Pagada keeps that status in the next
\* state for as long as the row exists, whichever statement of whichever
\* request takes the step.
C20_PagadaStays ==
    [][\A i \in installments : \A j \in installments' :
          j.id = i.id /\ i.status = "Pagada" => j.status = "Pagada"]_vars


\* The payment row a step inserts, if it inserts one.
NewPayments == payments' \ payments

\* The step turns installment i, which was not Pagada, into the Pagada row j.
BecomesPagada(i, j) == i.status # "Pagada" /\ j.status = "Pagada"

\* The step raises what installment i has paid and the row j it leaves still
\* owes something.
PartlyPaid(i, j) == j.paidAmount > i.paidAmount /\ j.paidAmount < j.amount

\* C21 as claimed: an installment becomes Pagada exactly in the step of the
\* payment that makes its paidAmount reach its amount, with paidDate that
\* payment's date; a normal payment that leaves paidAmount below amount raises
\* paidAmount by no more than the payment and leaves status and paidDate as
\* they were.
C21_PagadaOnFullPayment ==
    [][\A i \in installments : \A j \in installments' :
          j.id = i.id =>
             /\ BecomesPagada(i, j) <=>
                   (i.paidAmount < i.amount /\ j.paidAmount >= j.amount)
             /\ BecomesPagada(i, j) =>
                   \E q \in NewPayments : /\ q.loanId = j.loanId
                                           /\ j.paidDate = q.paymentDate
             /\ PartlyPaid(i, j) =>
                   /\ \E q \in NewPayments :
                         /\ q.loanId = j.loanId /\ q.type = "payment"
                         /\ j.paidAmount - i.paidAmount <= q.amount
                   /\ j.amount = i.amount
                   /\ j.status = i.status
                   /\ j.paidDate = i.paidDate]_vars

\* C21 amended: as C21_PagadaOnFullPayment, except that the status of an
\* installment the payment leaves partly paid is what it was only while the
\* installment is not overdue: when its due date is before today the refresh
\* that ends the request leaves it Atrasada.
C21_PagadaOnFullPaymentOrOverdue ==
    [][\A i \in installments : \A j \in installments' :
          j.id = i.id =>
             /\ BecomesPagada(i, j) <=>
                   (i.paidAmount < i.amount /\ j.paidAmount >= j.amount)
             /\ BecomesPagada(i, j) =>
                   \E q \in NewPayments : /\ q.loanId = j.loanId
                                           /\ j.paidDate = q.paymentDate
             /\ PartlyPaid(i, j) =>
                   /\ \E q \in NewPayments :
                         /\ q.loanId = j.loanId /\ q.type = "payment"
                         /\ j.paidAmount - i.paidAmount <= q.amount
                   /\ j.amount = i.amount
                   /\ j.status = IF j.dueDate < today THEN "Atrasada"
                                 ELSE i.status
                   /\ j.paidDate = i.paidDate]_vars

\* C21 witness: two normal payments on one loan have left one installment
\* Pagada with a paid date and another partly paid, Pendiente and undated.
C21_Witness ==
    \E i, j \in installments :
       /\ i.loanId = j.loanId
       /\ i.status = "Pagada" /\ i.paidAmount = i.amount /\ i.paidDate # NoDate
       /\ j.status = "Pendiente" /\ j.paidAmount > 0 /\ j.paidDate = NoDate
       /\ Cardinality({q \in PaymentsOf(i.loanId) : q.type = "payment"}) = 2

\* The rows a step inserts into loans and into installments.
NewLoans == loans' \ loans
NewInstallments == installments' \ installments

\* r is num/den rounded to the nearest integer, halves upwards (den > 0).
IsRounded(r, num, den) ==
    2 * den * r <= 2 * num + den /\ 2 * num + den < 2 * den * (r + 1)

\* C22: a step that creates a loan creates one, with principal P > 0 and
\* n >= 1 installments, whose baseInstallment is P/n and whose
\* interestPerInstallment is P/20, each rounded to the nearest cent (halves
\* upwards), installmentTotal their sum, totalPayable n times that, paidTotal
\* 0, pendingTotal = totalPayable and status Activo; the step inserts n
\* installments of that loan, each with amount installmentTotal, paidAmount 0
\* and status Pendiente.
C22_LoanFields ==
    [][LoanCreated =>
        \E l \in NewLoans :
            /\ NewLoans = {l}
            /\ l.amount > 0 /\ l.installmentsCount >= 1
            /\ IsRounded(l.baseInstallment, l.amount, l.installmentsCount)
            /\ IsRounded(l.interestPerInstallment, 5 * l.amount, 100)
            /\ l.installmentTotal =
                  l.baseInstallment + l.interestPerInstallment
            /\ l.totalPayable = l.installmentTotal * l.installmentsCount
            /\ l.paidTotal = 0
            /\ l.pendingTotal = l.totalPayable
            /\ l.status = "Activo"
            /\ Cardinality(NewInstallments) = l.installmentsCount
            /\ \A i \in NewInstallments :
                  /\ i.loanId = l.id
                  /\ i.amount = l.installmentTotal
                  /\ i.paidAmount = 0
                  /\ i.status = "Pendiente"]_vars

\* C22 witness: a loan of 1000 in 4 installments is stored with 250, 50, 300
\* and 1200, and its four installments are of 300 each.
C22_Witness ==
    \E l \in loans :
       /\ l.amount = 1000 /\ l.installmentsCount = 4
       /\ l.baseInstallment = 250 /\ l.interestPerInstallment = 50
       /\ l.installmentTotal = 300 /\ l.totalPayable = 1200
       /\ Cardinality({i \in InstsOf(installments, l.id) : i.amount = 300}) = 4

\* C23: a step that creates a loan with n installments inserts exactly n
\* installments of it, numbered 1..n with each number used once, and the due
\* date of a higher number is later than that of a lower one.
C23_NumberedAndIncreasing ==
    [][LoanCreated =>
        \A l \in NewLoans :
            LET rows == InstsOf(installments', l.id)
            IN /\ rows = NewInstallments
               /\ Cardinality(rows) = l.installmentsCount
               /\ {i.number : i \in rows} = 1..l.installmentsCount
               /\ \A i, j \in rows :
                     i.number < j.number => i.dueDate < j.dueDate]_vars

\* C23 witness: a loan dated 2023-12-16 has four installments, numbered 1 to
\* 4, the first due around the new year and the last in February 2024.
C23_Witness ==
    \E l \in loans :
       /\ l.loanDate = 20231216 /\ l.installmentsCount = 4
       /\ {i.number : i \in InstsOf(installments, l.id)} = 1..4
       /\ \E i, j \in InstsOf(installments, l.id) :
             /\ i.number = 1 /\ i.dueDate \in {20231231, 20240101}
             /\ j.number = 4 /\ j.dueDate \in {20240214, 20240215}

\* The 1st and the 15th of every month of the years the loans fall in.
AnchorDays ==
    {y * 10000 + m * 100 + d : y \in 2023..2025, m \in 1..12, d \in {1, 15}}

\* b is the first anchor day after a.
NextAnchor(a, b) ==
    /\ b \in AnchorDays /\ a < b
    /\ \A x \in AnchorDays : ~(a < x /\ x < b)

\* C24: the installments a step creates for a loan are all due on a 1st or a
\* 15th; the first is due on the earliest such day on or after the loan date
\* (the loan date itself when it is one) and each later one on the first such
\* day after the due date of the one before.
C24_DueOnAnchorDays ==
    [][LoanCreated =>
        \A l \in NewLoans : \A i \in NewInstallments :
            /\ i.dueDate \in AnchorDays
            /\ i.number = 1 =>
                  \/ i.dueDate = l.loanDate
                  \/ l.loanDate \notin AnchorDays
                       /\ NextAnchor(l.loanDate, i.dueDate)
            /\ \A j \in NewInstallments :
                  j.number = i.number + 1 => NextAnchor(i.dueDate, j.dueDate)]_vars

\* C25: from every reachable state, whatever the due dates of each loan's
\* installments (all the same, distinct, or of a single installment), a
\* second run of the schedule repair right after a first leaves the due dates
\* the first run left and reports no loan as fixed.
C25_RepairIdempotent ==
    LET once == repairAll(installments, loans)
    IN /\ repairAll(once, loans) = once
       /\ loansFixed(once, loans) = 0
       /\ \A l \in loans :
             ensureQuincenalInstallments(once, l) = once

\* C25 witness: the repair has run on a loan whose three installments were
\* stored with one due date, and they now have three different due dates;
\* another loan, created with its schedule, is there too.
C25_Witness ==
    \E l, k \in loans :
       /\ l.loanDate = LegacyDate /\ l.installmentsCount = 3
       /\ Cardinality({i.dueDate : i \in InstsOf(installments, l.id)}) = 3
       /\ k.id # l.id /\ k.installmentsCount > 1

\* The rows a step appends to capital_movements.
NewMovements == movements' \ movements

\* C26: PUT /capital with an amount a >= 0 leaves capital.amount = a, removes
\* no movement and, when a differs from the previous amount, appends exactly
\* one movement, of type manual_set, with amount a minus the previous amount
\* and no loan or payment; when a is the previous amount it appends none.
C26_SetCapital ==
    [][\A a \in CapitalAmounts :
          PutCapital(a) =>
             /\ capital' = a
             /\ movements \subseteq movements'
             /\ IF a = capital THEN NewMovements = {}
                ELSE \E m \in NewMovements :
                        /\ NewMovements = {m}
                        /\ m.type = "manual_set"
                        /\ m.amount = a - capital
                        /\ m.loanId = NoId /\ m.paymentId = NoId]_vars

\* C26 witness: the capital has been set to 50 and then to 0: the last two
\* movements are manual_set of 50 and of -50.
C26_Witness ==
    /\ capital = 0
    /\ \E m, k \in movements :
          /\ m.type = "manual_set" /\ m.amount = 50
          /\ k.type = "manual_set" /\ k.amount = -50 /\ k.id > m.id

\* C27: POST /capital/adjust with a delta that would take the capital below
\* zero leaves capital and movements as they were; with any other delta it
\* leaves capital.amount = previous amount + delta, removes no movement and
\* appends exactly one, of type manual_adjust, with amount delta and no loan
\* or payment.
C27_AdjustCapital ==
    [][\A d \in Deltas :
          AdjustCapital(d) =>
             IF capital + d < 0
             THEN UNCHANGED <<capital, movements>>
             ELSE /\ capital' = capital + d
                  /\ movements \subseteq movements'
                  /\ \E m \in NewMovements :
                        /\ NewMovements = {m}
                        /\ m.type = "manual_adjust"
                        /\ m.amount = d
                        /\ m.loanId = NoId /\ m.paymentId = NoId]_vars

\* C27 witness: the capital was adjusted down to 0 by a manual_adjust of -10
\* (so that a further -10 is refused) after one of +10.
C27_Witness ==
    /\ capital = 0
    /\ \E m, k \in movements :
          /\ m.type = "manual_adjust" /\ m.amount = 10
          /\ k.type = "manual_adjust" /\ k.amount = -10 /\ k.id > m.id
    /\ \A m \in movements : m.type = "manual_adjust"

\* The step changes the status of a stored loan without inserting a payment
\* or removing a loan: a manual override.
StatusOverridden ==
    /\ payments' = payments
    /\ LoanIds(loans') = LoanIds(loans)
    /\ \E l \in loans : LoanById(loans', l.id).status # l.status

\* C28: a manual override of a loan's status leaves that loan's other fields
\* (paidTotal, pendingTotal and totalPayable among them), every other loan,
\* all installments, payments, capital and movements as they were, whatever
\* the aggregator would have made of them; PUT /loans/:id/status of a stored
\* loan leaves it with the status asked for.
C28_OverrideOnlyStatus ==
    [][/\ StatusOverridden =>
            /\ UNCHANGED <<installments, payments, capital, movements, clients>>
            /\ \A l \in loans :
                  LoanById(loans', l.id) =
                     [l EXCEPT !.status = LoanById(loans', l.id).status]
            /\ Cardinality({l \in loans : l \notin loans'}) = 1
       /\ \A id \in LoanIds(loans) : \A st \in LoanStatuses :
            PutLoanStatus(id, st) =>
               /\ LoanById(loans', id).status = st
               /\ UNCHANGED installments]_vars

\* C28 witness: a loan stands as Finalizado with an amount still pending and
\* an overdue installment still Pendiente, which neither a payoff nor the
\* aggregator leaves behind.
C28_Witness ==
    \E l \in loans :
       /\ l.status = "Finalizado" /\ l.pendingTotal > 0
       /\ \E i \in InstsOf(installments, l.id) :
             i.status = "Pendiente" /\ i.dueDate < today

\* C29: in every step, an installment either stays, with its id, number and
\* loanId, or goes together with its loan and all the installments of that
\* loan; an installment that appears belongs to a loan created in that step;
\* no two installments of a loan have the same number.
C29_InstallmentsFixed ==
    [][/\ \A i \in installments :
            \/ \E j \in installments' :
                  j.id = i.id /\ j.number = i.number /\ j.loanId = i.loanId
            \/ /\ i.loanId \in LoansGone
               /\ InstsOf(installments', i.loanId) = {}
       /\ \A j \in installments' :
            (\A i \in installments : i.id # j.id) =>
               j.loanId \in LoanIds(loans') \ LoanIds(loans)
       /\ \A i, j \in installments' :
            i.loanId = j.loanId /\ i.number = j.number => i = j]_vars

\* C29 witness: a loan that has had a payment, a payoff and a status override
\* still has its two installments, numbered 1 and 2, and no other installment
\* is stored.
C29_Witness ==
    /\ \E l \in loans :
          /\ l.status = "Activo"
          /\ l.installmentsCount = 2
          /\ {i.number : i \in InstsOf(installments, l.id)} = {1, 2}
          /\ InstsOf(installments, l.id) = installments
          /\ \E q, r \in PaymentsOf(l.id) :
                q.type = "payment" /\ r.type = "payoff"

\* C30: in every step, a stored movement either stays with its id, type,
\* amount, loanId and paymentId, or goes because the loan it refers to, or
\* the loan of the payment it refers to, is deleted in that step; a movement
\* of type manual_set or manual_adjust always stays; a movement that appears
\* has an id no stored movement had.
C30_MovementsAppendOnly ==
    [][/\ \A m \in movements :
            \/ m \in movements'
            \/ /\ m.loanId \in LoansGone \/ m.paymentId \in PaymentsGone
               /\ \A k \in movements' : k.id # m.id
       /\ \A m \in movements :
            m.type \in {"manual_set", "manual_adjust"} => m \in movements'
       /\ \A k \in NewMovements : \A m \in movements : k.id # m.id]_vars

\* C30 witness: a loan with a payment has been deleted; its loan and payment
\* movements are gone and the manual movements made before are still there.
C30_Witness ==
    /\ loans = {} /\ nextId.loan > 1 /\ nextId.payment > 1
    /\ nextId.movement > 4
    /\ \E m, k \in movements :
          m.type = "manual_set" /\ k.type = "manual_adjust"
    /\ \A m \in movements : m.type \in {"manual_set", "manual_adjust"}

\* The requests of the run were payments or payoffs, one per connection slot,
\* and all have been answered with success.
PaymentsAllAccepted ==
    \A p \in Procs : /\ procs[p].op = "PostPayment"
                      /\ procs[p].pc = "done"
                      /\ procs[p].code = 201

\* C31: once concurrent payments and payoffs have all been answered with
\* success, whatever the interleaving of their statements (their refresh
\* after COMMIT included), each loan's stored paidTotal is the sum of the
\* paidAmount of its installments and its pendingTotal the sum of their
\* amount minus that.
C31_TotalsWhenQuiet ==
    (Quiet /\ PaymentsAllAccepted) =>
        \A l \in loans :
            /\ l.paidTotal = PaidOf(l.id)
            /\ l.pendingTotal = OwedOf(l.id) - PaidOf(l.id)

\* Every loan and every movement ever inserted is still stored.
NothingDeleted ==
    /\ Cardinality(loans) = nextId.loan - 1
    /\ Cardinality(movements) = nextId.movement - 1

\* The requests of the run were loan creations, one per connection slot, and
\* both have been answered with success.
LoansAllAccepted ==
    \A p \in Procs : /\ procs[p].op = "PostLoan"
                      /\ procs[p].pc = "done"
                      /\ procs[p].code = 201

\* C32: once concurrent loan creations have all been answered with success,
\* and while nothing has been deleted, the principals of the loans add up to
\* no more than the funds credited to the capital, that is the movements
\* other than those of type loan.
C32_LoansWithinFunds ==
    (Quiet /\ LoansAllAccepted /\ NothingDeleted) =>
        SumAmount(loans) <= SumAmount({m \in movements : m.type # "loan"})

\* What the step added to the paidAmount of the installment row i.
Received(i) ==
    IF \E j \in installments' : j.id = i.id
    THEN InstById(installments', i.id).paidAmount - i.paidAmount
    ELSE 0

\* The number the allocation of the payment row q starts from: that of the
\* installment it names, or 1.
StartOf(q) ==
    IF q.installmentId # NoId
    THEN InstById(installments, q.installmentId).number
    ELSE 1

\* The rows of the loan of q numbered from the start up to, not including, i.
AheadOf(q, i) ==
    {j \in InstsOf(installments, q.loanId) :
        j.number >= StartOf(q) /\ j.number < i.number}

RECURSIVE SumReceived(_)
SumReceived(rows) ==
    IF rows = {} THEN 0
    ELSE LET i == CHOOSE x \in rows : TRUE
         IN Received(i) + SumReceived(rows \ {i})

\* C33: an accepted normal payment is allocated in ascending installment
\* number from the installment it names, or from 1: the installments below
\* the start keep their amount, paidAmount and paidDate; an installment
\* receives a part only if every installment ahead of it, from the start on,
\* is fully paid once the payment is applied; and the part it receives is the
\* smaller of what is left of the payment and its amount minus its paidAmount.
C33_Waterfall ==
    [][\A q \in NewPayments : q.type = "payment" =>
        \A i \in InstsOf(installments, q.loanId) :
            LET after == InstById(installments', i.id)
            IN /\ \E j \in installments' : j.id = i.id
               /\ Received(i) >= 0
               /\ i.number < StartOf(q) =>
                     /\ after.amount = i.amount
                     /\ after.paidAmount = i.paidAmount
                     /\ after.paidDate = i.paidDate
               /\ Received(i) > 0 =>
                     /\ i.number >= StartOf(q)
                     /\ \A j \in AheadOf(q, i) :
                           LET paid == InstById(installments', j.id)
                           IN paid.paidAmount >= paid.amount
                     /\ Received(i) =
                           Min(q.amount - SumReceived(AheadOf(q, i)),
                               i.amount - i.paidAmount)]_vars

\* C33 witness: a payment of 300 naming installment 2 of a loan whose
\* installment 1 is not fully paid has been split over installments 2 and 3,
\* installment 2 ending fully paid.
C33_Witness ==
    \E q \in payments : \E i1, i2, i3 \in InstsOf(installments, q.loanId) :
        /\ q.type = "payment" /\ q.amount = 300 /\ q.installmentId = i2.id
        /\ i1.number = 1 /\ i2.number = 2 /\ i3.number = 3
        /\ i1.paidAmount < i1.amount
        /\ i2.paidAmount = i2.amount
        /\ i3.paidAmount > 0 /\ i3.paidAmount < i3.amount

\* The status the transition rule gives a row at date day.
RuleStatus(inst, day) ==
    IF inst.paidAmount >= inst.amount THEN "Pagada"
    ELSE IF inst.dueDate < day THEN "Atrasada"
    ELSE "Pendiente"

\* The step refreshed the installment statuses of loan l: it read the loan,
\* or it accepted a payment or a payoff on it.
Refreshes(l) ==
    \/ l \in LoanIds(loans) /\ GetLoan(l)
    \/ \E q \in NewPayments : q.loanId = l

\* C34: after a status refresh at date today, every installment of the loan
\* is Pagada if its paidAmount has reached its amount, else Atrasada if its
\* due date is before today, else Pendiente.  (Dates are compared as
\* YYYY-MM-DD values, as toDateOnly expects them from the DATE columns.)
C34_RefreshRule ==
    [][\A l \in 1..MaxLoans :
        Refreshes(l) =>
            \A i \in InstsOf(installments', l) :
                i.status = RuleStatus(i, today')]_vars

\* C34 witness: a loan has one unpaid installment past its due date stored
\* Atrasada, and another not yet due stored Pendiente.
C34_Witness ==
    \E i, j \in installments :
        /\ i.loanId = j.loanId
        /\ i.status = "Atrasada" /\ i.paidAmount < i.amount
        /\ i.dueDate < today
        /\ j.status = "Pendiente" /\ j.dueDate >= today

\* The status an aggregator refresh of loan l would store in this state.
WouldSet(ls, is, l, day) ==
    LoanById(updateLoanTotalsAndStatus(
                 ls, refreshInstallmentStatuses(is, l, day), l), l).status

\* C35: the aggregator refresh that follows an accepted payment or payoff
\* leaves the loan Finalizado if its pendingTotal is not positive, whatever
\* the statuses of its installments, else En mora if at least one of its
\* installments is Atrasada, else Activo; and from a state where a refresh
\* sets Finalizado, a refresh sets Finalizado in every later state of the loan.
C35_AggregateRule ==
    [][\A l \in LoanIds(loans) :
        /\ (\E q \in NewPayments : q.loanId = l) =>
              LET ln == LoanById(loans', l)
                  late == {i \in InstsOf(installments', l) :
                              i.status = "Atrasada"}
              IN ln.status = IF ln.pendingTotal <= 0 THEN "Finalizado"
                             ELSE IF late # {} THEN "En mora"
                             ELSE "Activo"
        /\ (l \in LoanIds(loans')
              /\ WouldSet(loans, installments, l, today) = "Finalizado") =>
              WouldSet(loans', installments', l, today') = "Finalizado"]_vars

\* C35 witness: a loan that a refresh left Finalizado with nothing pending
\* has since been set to Activo by hand, past the due date of an installment,
\* while another loan stands En mora.
C35_Witness ==
    \E l, m \in loans :
        /\ l.pendingTotal = 0 /\ l.paidTotal > 0 /\ l.status = "Activo"
        /\ \E i \in InstsOf(installments, l.id) : i.dueDate < today
        /\ m.status = "En mora" /\ m.pendingTotal > 0

\* The stored status of the loan row ln is the one the aggregator computes
\* from its stored pendingTotal and the stored statuses of its installments in
\* is, so that no manual override shows in it.
StatusIsComputed(ln, is) ==
    ln.status = AggregateStatus(ln.pendingTotal, LateCount(InstsOf(is, ln.id)))

\* A loan with something pending and an installment stored Atrasada is En mora.
MoraShown(ln, is) ==
    (ln.pendingTotal > 0
       /\ \E i \in InstsOf(is, ln.id) : i.status = "Atrasada") =>
        ln.status = "En mora"

\* C36: a loan with pendingTotal > 0 and at least one installment stored
\* Atrasada, whose status has not been overridden by hand, is En mora; in
\* particular reading a loan whose stored status is the computed one, which
\* refreshes its installment statuses, leaves it so.
C36_ReadKeepsMora ==
    [][\A ln \in loans :
        (GetLoan(ln.id) /\ StatusIsComputed(ln, installments)) =>
            MoraShown(LoanById(loans', ln.id), installments')]_vars

\* POST /payments bodies that pay an amount on the loan l named by loanId.
PaymentsOn(l) ==
    {[clientId |-> NoId, loanId |-> l, installmentId |-> NoId, amount |-> a,
      paymentDate |-> NoDate, payoff |-> FALSE] : a \in PaymentAmounts}

\* POST /payments answers the request rq with 201 in this state.
Accepts(rq) == paymentPlan(loans, installments, clients, rq).code = 201

\* C37: a payment of a positive amount on a stored loan is accepted exactly
\* when the installments of the loan have something pending and the amount
\* is no more than that, whatever the stored status of the loan; so a loan
\* set to Finalizado by hand with something pending accepts it, and the
\* refresh that follows an accepted payment stores the computed status.
C37_AcceptanceIgnoresStatus ==
    /\ [](\A l \in LoanIds(loans) : \A rq \in PaymentsOn(l) :
            LET pending == OwedOf(l) - PaidOf(l)
            IN Accepts(rq) <=> (pending > 0 /\ rq.amount <= pending))
    /\ [][\A q \in NewPayments :
            StatusIsComputed(LoanById(loans', q.loanId), installments')]_vars

\* C37 witness: a loan that has been paid in part, and so refreshed, has
\* since been set to Finalizado by hand with something still pending.
C37_Witness ==
    \E l \in loans :
        /\ l.status = "Finalizado" /\ l.paidTotal > 0
        /\ OwedOf(l.id) - PaidOf(l.id) > 0
        /\ \E rq \in PaymentsOn(l.id) : rq.amount <= OwedOf(l.id) - PaidOf(l.id)

\* C38: a payoff never charges more than the loan's installments still owe
\* (sum of amount minus sum of paidAmount), leaves no installment with an
\* amount above the one it had, and leaves the loan's totalPayable no higher
\* than it was.
C38_PayoffWithinPending ==
    [][\A q \in NewPayments : q.type = "payoff" =>
        /\ q.amount <= OwedOf(q.loanId) - PaidOf(q.loanId)
        /\ \A i \in InstsOf(installments, q.loanId) :
              InstById(installments', i.id).amount <= i.amount
        /\ LoanById(loans', q.loanId).totalPayable
              <= LoanById(loans, q.loanId).totalPayable]_vars

\* C38 witness: a payoff has lowered the amount of one installment of a loan
\* and kept that of another, which had been paid beyond its interest.
C38_Witness ==
    \E q \in payments : \E i, j \in InstsOf(installments, q.loanId) :
        LET ln == LoanById(loans, q.loanId)
        IN /\ q.type = "payoff"
           /\ i.amount < ln.installmentTotal
           /\ j.amount = ln.installmentTotal
           /\ ln.totalPayable < ln.installmentTotal * ln.installmentsCount

\* The request in slot p is a payment that names an installment; the request
\* in slot r is a payment or payoff that names the loan.
TargetedAndByLoan(p, r) ==
    /\ procs[p].op = "PostPayment" /\ procs[r].op = "PostPayment"
    /\ ~procs[p].rq.payoff /\ procs[p].rq.installmentId # NoId
    /\ procs[r].rq.installmentId = NoId /\ procs[r].rq.loanId # NoId

\* The transaction of slot p waits for a lock in a cycle of transactions
\* that wait for each other.
InWaitCycle(p) ==
    WaitsFor(p) # {} /\ p \in WaitsForClosure(WaitsFor(p), NumProcs)

\* C39: a payment that names an installment and a concurrent payment that
\* names the loan never wait for each other's row locks in a cycle, so that
\* neither is blocked forever or aborted as the victim of a deadlock.
C39_NoWaitCycle ==
    \A p, r \in Procs :
        TargetedAndByLoan(p, r) => ~InWaitCycle(p) /\ ~InWaitCycle(r)
=======================================================================
